---- MODULE Spec2Model ----
(***************************************************************************)
(* Story Mode of the SQLite admin console: the dependency graph built from *)
(* the cached foreign keys (app/story.py build_dependency_graph), the      *)
(* degree-biased Kahn ordering of the tables (topological_sort_tables),    *)
(* and the progress of a story step (get_step_progress).                   *)
(***************************************************************************)
EXTENDS Integers, Sequences, FiniteSets, TLC

VARIABLES
    metadata,    \* rows of table_metadata as get_cached_metadata returns them
    hashOrder,   \* iteration order Python's str hashing gives a set of names
    graph,       \* the dict build_dependency_graph returned
    queue,       \* topological_sort_tables: the work queue
    result,      \* topological_sort_tables: the output list
    visited,     \* topological_sort_tables: the visited set
    pc,          \* "boot", "idle", then "built" or the sort's "loop", "done",
                 \* or "ready", "returned" around a get_step_progress call
    target_db_path,  \* DatabaseManager.target_db_path: None or a path
    target_rows,     \* the target database: table name -> number of rows
    step,            \* the StoryStep handed to get_step_progress
    progress,        \* what get_step_progress returned, or that it raised
    generated,       \* what generate_default_story_steps last returned
    story_steps,     \* the rows of the story_steps table, in rowid order
    next_id,         \* the id AUTOINCREMENT gives the next story_steps row
    call,            \* the last call that wrote or read the story
    answer,          \* what the last call that read the story returned
    table_dependencies,  \* the rows of the table_dependencies table
    column_name,     \* the name handed to detect_semantic_type
    detected,        \* what detect_semantic_type returned
    table_columns,   \* introspect_table: the columns of the analysed table
    table_semantics, \* what analyze_table_semantics returned
    crud_rows,       \* the rows of the target table that delete_row works on
    crud_call,       \* the last delete_row call and what it returned
    listing,         \* what list_rows returned
    tables_to_clear, \* clear_all_demo_data: ordered_tables, the reversed sort
    cleared,         \* the tables clear_demo_data was called on, in call order
    results,         \* clear_all_demo_data: table name -> deleted count
    live_schema, \* the tables and foreign keys of the live target database
    txn  \* regenerate_story_steps: its connection's open transaction

vars ==
    <<metadata, hashOrder, graph, queue, result, visited, pc,
      target_db_path, target_rows, step, progress,
      generated, story_steps, next_id, call, answer, table_dependencies,
      column_name, detected, table_columns, table_semantics,
      crud_rows, crud_call, listing,
      tables_to_clear, cleared, results,
      live_schema,
      txn>>

\* the state of a get_step_progress call and of the target database
progressVars == <<target_db_path, target_rows, step, progress>>

\* the story_steps table and the calls on it
storyVars ==
    <<generated, story_steps, next_id, call, answer, table_dependencies>>

\* the state of a detect_semantic_type or analyze_table_semantics call
semanticVars == <<column_name, detected, table_columns, table_semantics>>

\* the target table of delete_row and list_rows
crudVars == <<crud_rows, crud_call, listing>>

\* the variables of the topological sort
sortVars == <<graph, queue, result, visited>>

\* the transaction of a running regenerate_story_steps
txnVars == <<txn>>

\* the target database as it is, whatever the cache holds
liveVars == <<live_schema>>

\* the state of a clear_all_demo_data call
demoVars == <<tables_to_clear, cleared, results>>

-----------------------------------------------------------------------------
(* Bounds of the model *)

\* total number of foreign-key rows in the cached schema
MaxFkRows == 3

\* the tables of the target database, in ORDER BY table_name order
TableNames == <<"a", "b", "c">>

\* a table that foreign keys may reference and the target database lacks
DanglingName == "x"

\* the referenced table of a foreign-key row that names none (falsy in Python)
NoTable == ""

NumTables == Len(TableNames)

NodeNames == {TableNames[i] : i \in 1..NumTables} \cup {DanglingName}

-----------------------------------------------------------------------------
(* Python dict and list helpers *)

EmptyDict == [k \in {} |-> <<>>]

\* d.get(k, default)
Get(d, k, default) == IF k \in DOMAIN d THEN d[k] ELSE default

\* d.setdefault(k, default), as the dict it leaves behind
SetDefault(d, k, default) == IF k \in DOMAIN d THEN d ELSE d @@ (k :> default)

\* d.setdefault(k, []).append(v), as the dict it leaves behind
AppendTo(d, k, v) ==
    IF k \in DOMAIN d THEN [d EXCEPT ![k] = Append(@, v)] ELSE d @@ (k :> <<v>>)

Range(s) == {s[i] : i \in 1..Len(s)}

\* the permutations of a finite set, as sequences
PermSeqs(S) ==
    {s \in [1..Cardinality(S) -> S] :
        \A i, j \in 1..Cardinality(S) : i # j => s[i] # s[j]}

\* "for t in S" over a Python set: the order the string hashes give
IterOrder(order, S) == SelectSeq(order, LAMBDA n : n \in S)

-----------------------------------------------------------------------------
(* The cached schema *)

\* the foreign-key rows of a schema with the tables in present, grouped by
\* table in table order: <<index of the referencing table, referenced name>>
FkRowSeqs(present, targets) ==
    {s \in UNION {[1..n -> present \X targets] : n \in 0..MaxFkRows} :
        \A i \in 1..Len(s) - 1 : s[i][1] <= s[i + 1][1]}

FksOfTable(rows, i) ==
    [j \in 1..Len(SelectSeq(rows, LAMBDA r : r[1] = i)) |->
        [table |-> SelectSeq(rows, LAMBDA r : r[1] = i)[j][2]]]

\* the indices in present, ascending
Ascending(present) ==
    [p \in 1..Cardinality(present) |->
        CHOOSE i \in present : Cardinality({k \in present : k < i}) = p - 1]

\* get_cached_metadata: one record per cached table, ORDER BY table_name
MetadataOf(present, rows) ==
    [p \in 1..Cardinality(present) |->
        [table_name |-> TableNames[Ascending(present)[p]],
         foreign_keys |-> FksOfTable(rows, Ascending(present)[p])]]

SchemasOver(presents, targets) ==
    UNION {{MetadataOf(present, rows) : rows \in FkRowSeqs(present, targets)} :
              present \in presents}

\* the schemas the ordering runs over: every table cached, every foreign key
\* naming a table, cached or not
SortSchemas == SchemasOver({1..NumTables}, NodeNames)

\* the schemas the graph is built from: any of the tables cached, foreign keys
\* naming a table, cached or not, or none
GraphSchemas == SchemasOver(SUBSET (1..NumTables), NodeNames \cup {NoTable})

\* the names a schema mentions
NamesOf(meta) ==
    {meta[i].table_name : i \in 1..Len(meta)}
    \cup UNION {{meta[i].foreign_keys[j].table : j \in 1..Len(meta[i].foreign_keys)} \ {NoTable} :
                  i \in 1..Len(meta)}

-----------------------------------------------------------------------------
(* build_dependency_graph *)

EmptyGraph ==
    [nodes |-> {}, edges |-> <<>>, outgoing |-> EmptyDict, incoming |-> EmptyDict,
     in_degree |-> EmptyDict, out_degree |-> EmptyDict]

\* Python truthiness of fk['table']
Truthy(referenced_table) == referenced_table # NoTable

\* nodes.add(referenced_table)
AddReferencedNodeNever(nodes, referenced_table) == nodes

AddReferencedNode(nodes, referenced_table) == nodes \cup {referenced_table}

\* incoming.setdefault(referenced_table, []).append(table_name), skipping a
\* table's reference to itself
AppendIncomingNoSelf(incoming, referenced_table, table_name) ==
    IF referenced_table = table_name THEN incoming
    ELSE AppendTo(incoming, referenced_table, table_name)

\* incoming.setdefault(referenced_table, []).append(table_name)
AppendIncoming(incoming, referenced_table, table_name) ==
    AppendTo(incoming, referenced_table, table_name)

\* the body of the inner loop, for one foreign-key row
AddForeignKey(g, table_name, fk) ==
    LET referenced_table == fk.table
    IN  IF Truthy(referenced_table)
        THEN [g EXCEPT
                !.edges = Append(@, <<table_name, referenced_table>>),
                !.outgoing = AppendTo(@, table_name, referenced_table),
                !.incoming = AppendIncoming(@, referenced_table, table_name),
                !.nodes = AddReferencedNode(@, referenced_table)]
        ELSE g

RECURSIVE AddForeignKeys(_, _, _)
AddForeignKeys(g, table_name, fks) ==
    IF fks = <<>> THEN g
    ELSE AddForeignKeys(AddForeignKey(g, table_name, Head(fks)), table_name, Tail(fks))

\* the body of the outer loop, for one metadata record
AddTable(g, table_info) ==
    LET table_name == table_info.table_name
        seeded == [g EXCEPT
                     !.nodes = @ \cup {table_name},
                     !.outgoing = SetDefault(@, table_name, <<>>),
                     !.incoming = SetDefault(@, table_name, <<>>)]
    IN  AddForeignKeys(seeded, table_name, table_info.foreign_keys)

RECURSIVE AddTables(_, _)
AddTables(g, meta) ==
    IF meta = <<>> THEN g ELSE AddTables(AddTable(g, Head(meta)), Tail(meta))

\* a degree counted as the number of distinct neighbours
DegreeDistinct(adjacency, t) == Cardinality(Range(Get(adjacency, t, <<>>)))

\* len(adjacency.get(t, []))
Degree(adjacency, t) == Len(Get(adjacency, t, <<>>))

\* lines 78-89: the degrees of every node, once all edges are added
WithDegrees(g) ==
    [g EXCEPT
       !.in_degree = [t \in g.nodes |-> Degree(g.incoming, t)],
       !.out_degree = [t \in g.nodes |-> Degree(g.outgoing, t)]]

BuildDependencyGraph(meta) ==
    CHOOSE g \in {WithDegrees(h) : h \in {AddTables(EmptyGraph, meta)}} : TRUE

-----------------------------------------------------------------------------
(* topological_sort_tables *)

\* the sort key: -graph['in_degree'].get(t, 0)
SortKey(g, t) == 0 - Get(g.in_degree, t, 0)

\* where list.sort, a stable sort, puts entry i of q: after every entry with a
\* smaller key and every earlier entry with the same key
SortedIndex(g, q, i) ==
    1 + Cardinality({j \in 1..Len(q) :
            \/ SortKey(g, q[j]) < SortKey(g, q[i])
            \/ SortKey(g, q[j]) = SortKey(g, q[i]) /\ j < i})

\* the queue left as it is
SortQueueNever(g, q) == q

\* queue.sort(key=lambda t: -graph['in_degree'].get(t, 0))
SortQueue(g, q) ==
    [p \in 1..Len(q) |-> q[CHOOSE i \in 1..Len(q) : SortedIndex(g, q, i) = p]]

\* the count taken over the incoming list
RefCountIncoming(g, t) == Len(Get(g.incoming, t, <<>>))

\* ref_count[t] = len(outgoing.get(t, []))
RefCount(g, t) == Len(Get(g.outgoing, t, <<>>))

\* the queue seeded with every node, whatever it references
InitialQueueAll(g, order) == IterOrder(order, g.nodes)

\* queue = [t for t in nodes if ref_count[t] == 0]
InitialQueue(g, order) ==
    SelectSeq(IterOrder(order, g.nodes), LAMBDA t : RefCount(g, t) = 0)

\* dependent not in visited, whatever it references
EnqueueableUnvisited(g, seen, dependent) == dependent \notin seen

\* dependent not in visited and all(d in visited for d in deps)
Enqueueable(g, seen, dependent) ==
    /\ dependent \notin seen
    /\ \A d \in Range(Get(g.outgoing, dependent, <<>>)) : d \in seen

\* the dependents the for loop appends after visiting table
NewlyEligible(g, seen, table) ==
    SelectSeq(Get(g.incoming, table, <<>>), LAMBDA dep : Enqueueable(g, seen, dep))

\* the front of the queue read but not removed
PopFrontNever(q) == q

\* what queue.pop(0) leaves in the queue
PopFront(q) == Tail(q)

\* the fallback appending every node, visited or not
RemainingAll(g, order, seen) == IterOrder(order, g.nodes)

\* [table for table in nodes if table not in visited]
Remaining(g, order, seen) ==
    SelectSeq(IterOrder(order, g.nodes), LAMBDA t : t \notin seen)

\* cache_table_metadata at startup: the cache holds one record per table of
\* the live schema, whatever that schema is; the interpreter has drawn the
\* hash seed that fixes the iteration order of a set of the schema's names
CacheTableMetadata ==
    /\ pc = "boot"
    /\ metadata' \in SortSchemas
    /\ hashOrder' \in PermSeqs(NamesOf(metadata'))
    /\ pc' = "idle"
    /\ UNCHANGED <<graph, queue, result, visited, progressVars, storyVars, semanticVars, crudVars,
                   demoVars, liveVars, txnVars>>

\* cache_table_metadata over a schema that the graph alone is built from
CacheGraphMetadata ==
    /\ pc = "boot"
    /\ metadata' \in GraphSchemas
    /\ pc' = "idle"
    /\ UNCHANGED <<hashOrder, graph, queue, result, visited, progressVars, storyVars, semanticVars, crudVars,
                   demoVars, liveVars, txnVars>>

\* a call of build_dependency_graph
BuildGraph ==
    /\ pc = "idle"
    /\ graph' = BuildDependencyGraph(metadata)
    /\ pc' = "built"
    /\ UNCHANGED <<metadata, hashOrder, queue, result, visited, progressVars, storyVars, semanticVars, crudVars,
                   demoVars, liveVars, txnVars>>

\* lines 101-126: build the graph, seed and sort the queue
TopoStart ==
    /\ pc = "idle"
    /\ \E g \in {BuildDependencyGraph(metadata)} :
          /\ graph' = g
          /\ \E q \in {InitialQueue(g, hashOrder)} : queue' = SortQueue(g, q)
    /\ result' = <<>>
    /\ visited' = {}
    /\ pc' = "loop"
    /\ UNCHANGED <<metadata, hashOrder, progressVars, storyVars, semanticVars, crudVars,
                   demoVars, liveVars, txnVars>>

\* lines 128-144: one iteration of the while loop that visits a table
TopoVisit ==
    /\ pc = "loop"
    /\ queue # <<>>
    /\ Head(queue) \notin visited
    /\ visited' = visited \cup {Head(queue)}
    /\ result' = Append(result, Head(queue))
    /\ \E q \in {PopFront(queue) \o NewlyEligible(graph, visited', Head(queue))} :
          queue' = SortQueue(graph, q)
    /\ UNCHANGED <<metadata, hashOrder, graph, pc, progressVars, storyVars, semanticVars, crudVars,
                   demoVars, liveVars, txnVars>>

\* lines 128-131: one iteration that pops an already visited table
TopoSkip ==
    /\ pc = "loop"
    /\ queue # <<>>
    /\ Head(queue) \in visited
    /\ queue' = PopFront(queue)
    /\ UNCHANGED <<metadata, hashOrder, graph, result, visited, pc, progressVars, storyVars, semanticVars, crudVars,
                   demoVars, liveVars, txnVars>>

\* lines 146-151: the queue is empty; append the unvisited nodes and return
TopoFinish ==
    /\ pc = "loop"
    /\ queue = <<>>
    /\ result' = result \o Remaining(graph, hashOrder, visited)
    /\ pc' = "done"
    /\ UNCHANGED <<metadata, hashOrder, graph, queue, visited, progressVars, storyVars, semanticVars, crudVars,
                   demoVars, liveVars, txnVars>>

-----------------------------------------------------------------------------
(* Python float arithmetic: IEEE 754 binary64, round to nearest, ties to    *)
(* even.  A positive float is mant * 2^exp with mant a list of Precision   *)
(* bits, most significant first and leading; zero has no bits.             *)

\* bits of a binary64 significand
Precision == 53

ZeroFloat == [mant |-> <<>>, exp |-> 0]

RECURSIVE NatToBits(_)
NatToBits(n) == IF n = 0 THEN <<>> ELSE NatToBits(n \div 2) \o <<n % 2>>

RECURSIVE BitsToNat(_)
BitsToNat(b) ==
    IF b = <<>> THEN 0 ELSE 2 * BitsToNat(SubSeq(b, 1, Len(b) - 1)) + b[Len(b)]

RECURSIVE StripZeros(_)
StripZeros(b) ==
    IF b # <<>> /\ b[1] = 0 THEN StripZeros(Tail(b)) ELSE b

Zeros(n) == [i \in 1..n |-> 0]

\* the carry into bit i of a + b, for lists of one length: some lower bit
\* generates a carry and every bit between propagates it
CarryInto(a, b, i) ==
    \E j \in i + 1..Len(a) :
        /\ a[j] + b[j] = 2
        /\ \A k \in i + 1..j - 1 : a[k] + b[k] >= 1

\* the bits of a + b, for lists of one length
AddAligned(a, b) ==
    [i \in 1..Len(a) + 1 |->
        IF i = 1 THEN (IF CarryInto(a, b, 0) THEN 1 ELSE 0)
        ELSE (a[i - 1] + b[i - 1] + (IF CarryInto(a, b, i - 1) THEN 1 ELSE 0)) % 2]

BitAdd(a, b) ==
    LET n == IF Len(a) > Len(b) THEN Len(a) ELSE Len(b)
    IN  AddAligned(Zeros(n - Len(a)) \o a, Zeros(n - Len(b)) \o b)

\* the float nearest to bits * 2^exp, plus a little more when sticky; bits
\* has a leading one
RoundToFloat(bits, exp, sticky) ==
    IF Len(bits) <= Precision
    THEN [mant |-> bits \o Zeros(Precision - Len(bits)),
          exp |-> exp - (Precision - Len(bits))]
    ELSE LET kept == SubSeq(bits, 1, Precision)
             guard == bits[Precision + 1]
             rest == sticky \/ \E i \in Precision + 2..Len(bits) : bits[i] = 1
             up == guard = 1 /\ (rest \/ kept[Precision] = 1)
             sum == StripZeros(BitAdd(kept, <<1>>))
             e == exp + (Len(bits) - Precision)
         IN  IF ~up THEN [mant |-> kept, exp |-> e]
             ELSE IF Len(sum) = Precision THEN [mant |-> sum, exp |-> e]
             ELSE [mant |-> SubSeq(sum, 1, Precision), exp |-> e + 1]

\* 2^n modulo r, by repeated squaring
RECURSIVE Pow2Mod(_, _)
Pow2Mod(n, r) ==
    IF n = 0 THEN 1 % r
    ELSE (Pow2Mod(n \div 2, r) * Pow2Mod(n \div 2, r) * (1 + (n % 2))) % r

\* what remains of rem / r after n bits of its binary expansion, rem < r
RemainderAfter(rem, r, n) == (rem * Pow2Mod(n, r)) % r

\* the next n bits of the binary expansion of rem / r, and what remains
FractionBits(rem, r, n) ==
    [bits |-> [i \in 1..n |->
                  IF 2 * RemainderAfter(rem, r, i - 1) >= r THEN 1 ELSE 0],
     rem |-> RemainderAfter(rem, r, n)]

\* the zero bits that open the binary expansion of rem / r, 0 < rem < r
RECURSIVE LeadingZeros(_, _)
LeadingZeros(rem, r) ==
    IF 2 * rem >= r THEN 0 ELSE 1 + LeadingZeros(2 * rem, r)

RECURSIVE Pow2(_)
Pow2(n) == IF n = 0 THEN 1 ELSE 2 * Pow2(n - 1)

\* current / required for ints: the float nearest to the quotient
TrueDivide(c, r) ==
    IF c = 0 THEN ZeroFloat
    ELSE IF c >= r
    THEN LET whole == NatToBits(c \div r)
             frac == FractionBits(c % r, r, Precision + 1 - Len(whole))
         IN  RoundToFloat(whole \o frac.bits, 0 - (Precision + 1 - Len(whole)),
                          frac.rem # 0)
    ELSE LET z == LeadingZeros(c, r)
             frac == FractionBits(c * Pow2(z), r, Precision + 1)
         IN  RoundToFloat(frac.bits, 0 - (z + Precision + 1), frac.rem # 0)

\* x * 100: the float nearest to the product (100 = 64 + 32 + 4)
TimesHundred(x) ==
    IF x.mant = <<>> THEN ZeroFloat
    ELSE RoundToFloat(
            StripZeros(BitAdd(x.mant \o Zeros(6),
                              BitAdd(x.mant \o Zeros(5), x.mant \o Zeros(2)))),
            x.exp, FALSE)

\* int(x): x truncated toward zero
IntOfFloat(x) ==
    IF x.mant = <<>> \/ Precision + x.exp <= 0 THEN 0
    ELSE IF x.exp >= 0 THEN BitsToNat(x.mant) * Pow2(x.exp)
    ELSE BitsToNat(SubSeq(x.mant, 1, Precision + x.exp))

-----------------------------------------------------------------------------
(* get_table_row_count and get_step_progress *)

\* the largest min_records_required of a step
MaxRequired == 50

\* the largest number of rows of a table of the target database
MaxRows == 51

None == "None"

NoStep == [source_type |-> None, source_name |-> None, min_records_required |-> 0]

NoProgress ==
    [raised |-> FALSE, current_count |-> 0, required |-> 0,
     is_complete |-> FALSE, percentage |-> 0]

Returned(value) == [raised |-> FALSE, value |-> value]

Raised == [raised |-> TRUE, value |-> 0]

\* the body of the try block: get_target_connection raises RuntimeError when
\* no target database is loaded, the SELECT raises when the table is missing
RowCountLookup(path, tables, table_name) ==
    IF path = None THEN Raised
    ELSE IF table_name \notin DOMAIN tables THEN Raised
    ELSE Returned(tables[table_name])

\* the lookup without the except clause
GetTableRowCountUncaught(path, tables, table_name) ==
    RowCountLookup(path, tables, table_name)

\* get_table_row_count: except Exception: return 0
GetTableRowCount(path, tables, table_name) ==
    IF RowCountLookup(path, tables, table_name).raised THEN Returned(0)
    ELSE RowCountLookup(path, tables, table_name)

Min(a, b) == IF a <= b THEN a ELSE b

\* min(100, int((current / required) * 100)) if required > 0 else 100
Percentage(current, required) ==
    IF required > 0
    THEN Min(100, IntOfFloat(TimesHundred(TrueDivide(current, required))))
    ELSE 100

\* lines 443-446
CurrentCount(s, path, tables) ==
    IF s.source_type = "table" THEN GetTableRowCount(path, tables, s.source_name)
    ELSE Returned(0)

GetStepProgress(s, path, tables) ==
    IF CurrentCount(s, path, tables).raised
    THEN [NoProgress EXCEPT !.raised = TRUE]
    ELSE [raised |-> FALSE,
          current_count |-> CurrentCount(s, path, tables).value,
          required |-> s.min_records_required,
          is_complete |->
              CurrentCount(s, path, tables).value >= s.min_records_required,
          percentage |->
              Percentage(CurrentCount(s, path, tables).value, s.min_records_required)]

\* the steps a story can hold: of a table of the target database, of a table
\* it lacks, or of a view
StorySteps ==
    [source_type : {"table", "view"},
     source_name : {TableNames[1], TableNames[2]},
     min_records_required : 0..MaxRequired]

\* the target database is loaded or not and holds the first table, with any
\* number of rows, or no table; the story holds any step
LoadTargetAndStep ==
    /\ pc = "boot"
    /\ target_db_path' \in {None, "target.db"}
    /\ target_rows' \in
          {EmptyDict} \cup {(TableNames[1] :> n) : n \in 0..MaxRows}
    /\ step' \in StorySteps
    /\ pc' = "ready"
    /\ UNCHANGED <<metadata, hashOrder, graph, queue, result, visited, progress,
                   storyVars, semanticVars, crudVars, demoVars, liveVars,
                   txnVars>>

\* a call of get_step_progress(step)
CallGetStepProgress ==
    /\ pc = "ready"
    /\ progress' = GetStepProgress(step, target_db_path, target_rows)
    /\ pc' = "returned"
    /\ UNCHANGED <<metadata, hashOrder, graph, queue, result, visited,
                   target_db_path, target_rows, step,
                   storyVars, semanticVars, crudVars, demoVars, liveVars,
                   txnVars>>

-----------------------------------------------------------------------------
(* generate_default_story_steps *)

\* topological_sort_tables, lines 128-151, run from a queue to the return
RECURSIVE SortLoop(_, _, _, _, _)
SortLoop(g, order, q, sorted, seen) ==
    IF q = <<>> THEN sorted \o Remaining(g, order, seen)
    ELSE IF Head(q) \in seen THEN SortLoop(g, order, PopFront(q), sorted, seen)
    ELSE SortLoop(g, order,
                  SortQueue(g, PopFront(q)
                                 \o NewlyEligible(g, seen \cup {Head(q)}, Head(q))),
                  Append(sorted, Head(q)), seen \cup {Head(q)})

\* topological_sort_tables as one call
TopologicalSortTables(meta, order) ==
    LET g == BuildDependencyGraph(meta)
    IN  SortLoop(g, order, SortQueue(g, InitialQueue(g, order)), <<>>, {})

\* table_name.replace('_', ' ').title(), on the names of the model
Title(table_name) ==
    CASE table_name = "a" -> "A"
      [] table_name = "b" -> "B"
      [] table_name = "c" -> "C"
      [] table_name = "x" -> "X"

\* the description: which of the four sentences, and the numbers put in it
Description(out_deg, in_deg) ==
    IF out_deg = 0 /\ in_deg > 0
    THEN [text |-> "root", out_deg |-> 0, in_deg |-> in_deg]
    ELSE IF out_deg > 0 /\ in_deg = 0
    THEN [text |-> "references", out_deg |-> out_deg, in_deg |-> 0]
    ELSE IF out_deg > 0 /\ in_deg > 0
    THEN [text |-> "references and referenced", out_deg |-> out_deg,
          in_deg |-> in_deg]
    ELSE [text |-> "standalone", out_deg |-> 0, in_deg |-> 0]

\* the index enumerate gives the table at position i, counted from 1
OrderIndexFromOne(i) == i

\* the index enumerate gives the table at position i of a 1-based list
OrderIndexAt(i) == i - 1

\* the dict appended for the table at position i
DefaultStep(g, table_name, i) ==
    [source_type |-> "table",
     source_name |-> table_name,
     order_index |-> OrderIndexAt(i),
     title |-> Title(table_name),
     description |-> Description(Get(g.out_degree, table_name, 0),
                                 Get(g.in_degree, table_name, 0)),
     min_records_required |-> 1,
     enabled |-> TRUE]

GenerateDefaultStorySteps(meta, order) ==
    LET ordered_tables == TopologicalSortTables(meta, order)
        g == BuildDependencyGraph(meta)
    IN  [i \in 1..Len(ordered_tables) |-> DefaultStep(g, ordered_tables[i], i)]

\* no call of generate_default_story_steps yet
NotGenerated == [called |-> FALSE, steps |-> <<>>]

NoCall == [op |-> "none"]

\* no regenerate_story_steps is running
NoTransaction ==
    [open |-> FALSE, old |-> <<>>, rows |-> <<>>, steps |-> <<>>,
     first_id |-> 0, inserted |-> 0]

NoAnswer == [of |-> "none"]

NotDetected == [called |-> FALSE, role |-> None]

\* a call of generate_default_story_steps over the cached schema
CallGenerateDefaultStorySteps ==
    /\ pc = "idle"
    /\ generated' =
          [called |-> TRUE, steps |-> GenerateDefaultStorySteps(metadata, hashOrder)]
    /\ pc' = "generated"
    /\ UNCHANGED <<metadata, hashOrder, sortVars, progressVars, story_steps,
                   next_id, call, answer, table_dependencies, semanticVars,
                   crudVars, demoVars, liveVars, txnVars>>

-----------------------------------------------------------------------------
(* The story_steps table: regenerate, reset, update and reorder *)

\* the largest id the story_steps table hands out
MaxStepId == 4

\* the schemas the stored story is generated from: the first two tables, with
\* one foreign key between them or none
StorySchemas ==
    {MetadataOf({1, 2}, rows) :
        rows \in {<<>>} \cup {<<r>> : r \in {1, 2} \X {TableNames[1], TableNames[2]}}}

\* the rows the INSERT loop adds: AUTOINCREMENT ids, enabled True stored as 1
StoredSteps(steps, first_id) ==
    [i \in 1..Len(steps) |->
        [id |-> first_id + i - 1,
         source_type |-> steps[i].source_type,
         source_name |-> steps[i].source_name,
         order_index |-> steps[i].order_index,
         title |-> steps[i].title,
         description |-> steps[i].description,
         min_records_required |-> steps[i].min_records_required,
         enabled |-> IF steps[i].enabled THEN 1 ELSE 0]]

\* the table after the INSERT loop alone, old rows kept when there are any
MergeSteps(rows, steps, first_id) ==
    IF rows = <<>> THEN StoredSteps(steps, first_id) ELSE rows

\* DELETE FROM story_steps, then the INSERT loop
ReplaceSteps(rows, steps, first_id) == StoredSteps(steps, first_id)

\* cache_dependency_graph: DELETE, then INSERT OR IGNORE of every edge into a
\* table with UNIQUE(from_table, to_table)
CachedDependencies(meta) ==
    LET edges == BuildDependencyGraph(meta).edges
        kept == {i \in 1..Len(edges) : \A j \in 1..i - 1 : edges[j] # edges[i]}
    IN  [p \in 1..Cardinality(kept) |->
            edges[CHOOSE i \in kept : Cardinality({k \in kept : k < i}) = p - 1]]

\* an optional argument: not passed (None), or passed with a value
Absent == [given |-> FALSE]

Some(v) == [given |-> TRUE, value |-> v]

CustomTitle == "Custom"

CustomDescription == [text |-> "custom", out_deg |-> 0, in_deg |-> 0]

\* the arguments update_story_step is called with: nothing, one field, or the
\* four fields of the admin edit form
UpdateArgs ==
    {[title |-> Absent, description |-> Absent, min_records_required |-> Absent,
      enabled |-> Absent, order_index |-> Absent],
     [title |-> Some(CustomTitle), description |-> Some(CustomDescription),
      min_records_required |-> Absent, enabled |-> Absent, order_index |-> Absent],
     [title |-> Absent, description |-> Absent, min_records_required |-> Some(2),
      enabled |-> Absent, order_index |-> Absent],
     [title |-> Absent, description |-> Absent, min_records_required |-> Absent,
      enabled |-> Some(FALSE), order_index |-> Absent],
     [title |-> Absent, description |-> Absent, min_records_required |-> Absent,
      enabled |-> Some(TRUE), order_index |-> Absent],
     [title |-> Absent, description |-> Absent, min_records_required |-> Absent,
      enabled |-> Absent, order_index |-> Some(0 - 1)],
     [title |-> Some(CustomTitle), description |-> Some(CustomDescription),
      min_records_required |-> Some(2), enabled |-> Some(FALSE),
      order_index |-> Absent]}

\* the UPDATE without its WHERE id = ?
UpdateEveryStoryStep(rows, step_id, args) ==
    [r \in 1..Len(rows) |->
        [rows[r] EXCEPT
            !.title = IF args.title.given THEN args.title.value ELSE @,
            !.description =
                IF args.description.given THEN args.description.value ELSE @,
            !.min_records_required =
                IF args.min_records_required.given
                THEN args.min_records_required.value ELSE @,
            !.enabled =
                IF args.enabled.given
                THEN (IF args.enabled.value THEN 1 ELSE 0) ELSE @,
            !.order_index =
                IF args.order_index.given THEN args.order_index.value ELSE @]]

\* UPDATE story_steps SET <the fields given> WHERE id = step_id
UpdateStoryStep(rows, step_id, args) ==
    [r \in 1..Len(rows) |->
        IF rows[r].id # step_id THEN rows[r]
        ELSE [rows[r] EXCEPT
                !.title = IF args.title.given THEN args.title.value ELSE @,
                !.description =
                    IF args.description.given THEN args.description.value ELSE @,
                !.min_records_required =
                    IF args.min_records_required.given
                    THEN args.min_records_required.value ELSE @,
                !.enabled =
                    IF args.enabled.given
                    THEN (IF args.enabled.value THEN 1 ELSE 0) ELSE @,
                !.order_index =
                    IF args.order_index.given THEN args.order_index.value ELSE @]]

\* the lists reorder_story_steps is called with: one or two ids, stored or not
ReorderLists == UNION {[1..n -> 1..MaxStepId] : n \in 1..2}

\* UPDATE story_steps SET order_index = i WHERE id = step_id
SetOrderIndex(rows, step_id, i) ==
    [r \in 1..Len(rows) |->
        IF rows[r].id = step_id THEN [rows[r] EXCEPT !.order_index = i]
        ELSE rows[r]]

\* the loop of reorder_story_steps from entry p of the list on
RECURSIVE ReorderFrom(_, _, _)
ReorderFrom(rows, step_ids, p) ==
    IF p > Len(step_ids) THEN rows
    ELSE ReorderFrom(SetOrderIndex(rows, step_ids[p], p - 1), step_ids, p + 1)

\* the table left as it is
ReorderStoryStepsNever(rows, step_ids) == rows

ReorderStorySteps(rows, step_ids) == ReorderFrom(rows, step_ids, 1)

\* the StoryStep built from a row: enabled=bool(row['enabled'])
StoryStepOf(row) == [row EXCEPT !.enabled = (row.enabled # 0)]

\* the SELECT without its WHERE enabled = 1
SelectedRowsAll(rows, include_disabled) == {rows[r] : r \in 1..Len(rows)}

\* the rows the SELECT of get_story_steps reads
SelectedRows(rows, include_disabled) ==
    {rows[r] : r \in {q \in 1..Len(rows) : include_disabled \/ rows[q].enabled = 1}}

\* no two of the rows share an order_index
TieFree(S) == \A r, q \in S : r # q => r.order_index # q.order_index

\* rows of distinct order_index, ascending
InIndexOrder(S) ==
    [p \in 1..Cardinality(S) |->
        CHOOSE r \in S :
            Cardinality({q \in S : q.order_index < r.order_index}) = p - 1]

\* ORDER BY order_index: ascending, the order of rows with equal order_index
\* being left to SQLite
OrderedByIndex(S) ==
    IF TieFree(S) THEN {InIndexOrder(S)}
    ELSE {t \in PermSeqs(S) :
             \A i, j \in 1..Len(t) : i < j => t[i].order_index <= t[j].order_index}

\* get_story_steps: the lists it can return
GetStorySteps(rows, include_disabled) ==
    {[i \in 1..Len(s) |-> StoryStepOf(s[i])] :
        s \in OrderedByIndex(SelectedRows(rows, include_disabled))}

\* a row carries an edit: it is not what regeneration stored at its place
Edited(rows) ==
    \E r \in 1..Len(rows) :
        \/ rows[r].title # Title(rows[r].source_name)
        \/ rows[r].min_records_required # 1
        \/ rows[r].enabled # 1
        \/ rows[r].order_index # r - 1

\* the step_ids name every stored step once
NamesAll(rows, step_ids) ==
    /\ Len(step_ids) = Len(rows)
    /\ {step_ids[i] : i \in 1..Len(step_ids)} = {rows[r].id : r \in 1..Len(rows)}

\* the first start on an empty system database: lifespan caches the schema
\* and the dependency graph, and initialize_story_steps finds no step and
\* regenerates
StartStory ==
    /\ pc = "boot"
    /\ metadata' \in StorySchemas
    /\ hashOrder' \in PermSeqs(NamesOf(metadata'))
    /\ table_dependencies' = CachedDependencies(metadata')
    /\ \E steps \in {GenerateDefaultStorySteps(metadata', hashOrder')} :
          /\ generated' = [called |-> TRUE, steps |-> steps]
          /\ story_steps' = ReplaceSteps(story_steps, steps, next_id)
          /\ next_id' = next_id + Len(steps)
    /\ call' = [op |-> "initialize"]
    /\ pc' = "story"
    /\ UNCHANGED <<sortVars, progressVars, answer, semanticVars, crudVars, demoVars,
                   liveVars, txnVars>>

\* the server is started again, or another worker serves the next request:
\* a new interpreter with its own hash seed; lifespan caches the unchanged
\* schema again and initialize_story_steps finds the steps there
NewProcess ==
    /\ pc = "story"
    /\ hashOrder' \in PermSeqs(NamesOf(metadata))
    /\ table_dependencies' = CachedDependencies(metadata)
    /\ call' = [op |-> "start"]
    /\ UNCHANGED <<metadata, sortVars, pc, progressVars, generated, story_steps,
                   next_id, answer, semanticVars, crudVars, demoVars,
                   liveVars, txnVars>>

\* what regenerate_story_steps does to the table
Regenerate(op) ==
    /\ pc = "story"
    /\ next_id + Len(story_steps) - 1 <= MaxStepId
    /\ \E steps \in {GenerateDefaultStorySteps(metadata, hashOrder)} :
          /\ generated' = [called |-> TRUE, steps |-> steps]
          /\ story_steps' = ReplaceSteps(story_steps, steps, next_id)
          /\ next_id' = next_id + Len(steps)
    /\ call' = [op |-> op, replaced_edits |-> Edited(story_steps)]

\* a call of regenerate_story_steps
RegenerateStorySteps ==
    /\ Regenerate("regenerate")
    /\ UNCHANGED <<metadata, hashOrder, sortVars, pc, progressVars, answer,
                   table_dependencies, semanticVars, crudVars, demoVars,
                   liveVars, txnVars>>

\* a call of reset_story: cache_dependency_graph, then regenerate_story_steps
ResetStory ==
    /\ Regenerate("reset")
    /\ table_dependencies' = CachedDependencies(metadata)
    /\ UNCHANGED <<metadata, hashOrder, sortVars, pc, progressVars, answer,
                   semanticVars, crudVars, demoVars, liveVars, txnVars>>

\* a call of update_story_step
CallUpdateStoryStep ==
    /\ pc = "story"
    /\ \E step_id \in 1..MaxStepId, args \in UpdateArgs :
          story_steps' = UpdateStoryStep(story_steps, step_id, args)
    /\ call' = [op |-> "update"]
    /\ UNCHANGED <<metadata, hashOrder, sortVars, pc, progressVars, generated,
                   next_id, answer, table_dependencies, semanticVars, crudVars,
                   demoVars, liveVars, txnVars>>

\* a call of reorder_story_steps; the list is kept when it names every stored
\* step once
CallReorderStorySteps ==
    /\ pc = "story"
    /\ \E step_ids \in ReorderLists :
          /\ story_steps' = ReorderStorySteps(story_steps, step_ids)
          /\ call' = [op |-> "reorder",
                      step_ids |-> IF NamesAll(story_steps, step_ids)
                                   THEN step_ids ELSE <<>>]
    /\ UNCHANGED <<metadata, hashOrder, sortVars, pc, progressVars, generated,
                   next_id, answer, table_dependencies, semanticVars, crudVars,
                   demoVars, liveVars, txnVars>>

-----------------------------------------------------------------------------
(* get_story_progress and get_current_story_step *)

\* the largest number of steps of a stored story
MaxSteps == 50

\* the names of the tables of a large target database
LargeName(i) == "t" \o ToString(i)

\* a short story after the admin's edits: up to three steps, each enabled or
\* not, asking for one or two rows, at any of the first three places
ShortStories ==
    UNION {{[r \in 1..n |->
                [id |-> r, source_type |-> "table", source_name |-> TableNames[r],
                 order_index |-> f[r].order_index, title |-> CustomTitle,
                 description |-> CustomDescription,
                 min_records_required |-> f[r].min_records_required,
                 enabled |-> f[r].enabled]] :
              f \in [1..n -> [order_index : 0..2, min_records_required : 1..2,
                              enabled : 0..1]]} : n \in 0..NumTables}

\* a long story: n enabled steps in order, the first k asking for one row
\* and the others for two; the target database has as many tables
LongStory(n, k) ==
    [r \in 1..n |->
        [id |-> r, source_type |-> "table", source_name |-> LargeName(r),
         order_index |-> r - 1, title |-> CustomTitle,
         description |-> CustomDescription,
         min_records_required |-> IF r <= k THEN 1 ELSE 2,
         enabled |-> 1]]

\* a target database whose tables hold one row each
OneRowEach(names) == [t \in names |-> 1]

\* the stored stories and target databases the progress is asked of
LoadableStories ==
    {[rows |-> rows, tables |-> OneRowEach(Range(TableNames))] : rows \in ShortStories}
    \cup {[rows |-> LongStory(n, k),
           tables |-> OneRowEach({LargeName(i) : i \in 1..n})] :
             n \in MaxSteps - 1..MaxSteps, k \in 0..MaxSteps - 1}

\* int((completed_count / total_steps) * 100) if total_steps > 0 else 100
OverallPercentage(completed_count, total_steps) ==
    IF total_steps > 0
    THEN IntOfFloat(TimesHundred(TrueDivide(completed_count, total_steps)))
    ELSE 100

\* lines 469-492, for the list of steps get_story_steps returned
GetStoryProgress(steps, path, tables) ==
    LET step_progress ==
            [i \in 1..Len(steps) |->
                [step |-> steps[i],
                 progress |-> GetStepProgress(steps[i], path, tables)]]
        completed_count ==
            Cardinality({i \in 1..Len(steps) : step_progress[i].progress.is_complete})
        total_steps == Len(steps)
    IN  [steps |-> step_progress,
         total_steps |-> total_steps,
         completed_steps |-> completed_count,
         overall_percentage |-> OverallPercentage(completed_count, total_steps),
         is_complete |-> completed_count = total_steps]

\* get_current_story_step returned None
NoCurrentStep == [found |-> FALSE]

\* lines 503-507: the first step_info that is not complete, or None
GetCurrentStoryStep(story_progress) ==
    LET open == {i \in 1..Len(story_progress.steps) :
                    ~story_progress.steps[i].progress.is_complete}
    IN  IF open = {} THEN NoCurrentStep
        ELSE [found |-> TRUE,
              info |-> story_progress.steps[CHOOSE i \in open : \A j \in open : i <= j]]

\* the system database holds a story and users have filled the target tables
LoadStory ==
    /\ pc = "boot"
    /\ \E loaded \in LoadableStories :
          /\ story_steps' = loaded.rows
          /\ next_id' = Len(loaded.rows) + 1
          /\ target_rows' = loaded.tables
    /\ target_db_path' = "target.db"
    /\ pc' = "loaded"
    /\ UNCHANGED <<metadata, hashOrder, sortVars, step, progress, generated, call,
                   answer, table_dependencies, semanticVars, crudVars,
                   demoVars, liveVars, txnVars>>

\* a call of get_story_progress
CallGetStoryProgress ==
    /\ pc = "loaded"
    /\ \E steps \in GetStorySteps(story_steps, FALSE) :
          answer' = [of |-> "get_story_progress",
                     value |-> GetStoryProgress(steps, target_db_path, target_rows)]
    /\ pc' = "asked"
    /\ UNCHANGED <<metadata, hashOrder, sortVars, progressVars, generated,
                   story_steps, next_id, call, table_dependencies, semanticVars,
                   crudVars, demoVars, liveVars, txnVars>>

\* a call of get_current_story_step
CallGetCurrentStoryStep ==
    /\ pc = "loaded"
    /\ \E steps \in GetStorySteps(story_steps, FALSE) :
          answer' = [of |-> "get_current_story_step",
                     value |-> GetCurrentStoryStep(
                                  GetStoryProgress(steps, target_db_path, target_rows))]
    /\ pc' = "asked"
    /\ UNCHANGED <<metadata, hashOrder, sortVars, progressVars, generated,
                   story_steps, next_id, call, table_dependencies, semanticVars,
                   crudVars, demoVars, liveVars, txnVars>>

-----------------------------------------------------------------------------
(* semantics.py: SEMANTIC_PATTERNS, detect_semantic_type and               *)
(* analyze_table_semantics.  Column names are strings; a regular           *)
(* expression is kept as its text and matched as re.match matches it.      *)

\* SEMANTIC_PATTERNS, in the order of the dict
SEMANTIC_PATTERNS ==
    << [semantic_type |-> "created_at",
        patterns |-> << "^created[-_]?at$", "^created[-_]?on$", "^createdat$",
                        "^createdon$", "^date[-_]?created$",
                        "^creation[-_]?date$", "^created$" >>],
       [semantic_type |-> "updated_at",
        patterns |-> << "^updated[-_]?at$", "^updated[-_]?on$", "^updatedat$",
                        "^updatedon$", "^modified[-_]?at$", "^modified[-_]?on$",
                        "^modifiedat$", "^modifiedon$", "^date[-_]?updated$",
                        "^date[-_]?modified$", "^last[-_]?modified$",
                        "^last[-_]?updated$" >>],
       [semantic_type |-> "deleted_at",
        patterns |-> << "^deleted[-_]?at$", "^deleted[-_]?on$", "^deletedat$",
                        "^deletedon$", "^date[-_]?deleted$",
                        "^soft[-_]?deleted$" >>],
       [semantic_type |-> "created_by",
        patterns |-> << "^created[-_]?by$", "^createdby$", "^author$",
                        "^creator$", "^owner$" >>],
       [semantic_type |-> "updated_by",
        patterns |-> << "^updated[-_]?by$", "^updatedby$", "^modified[-_]?by$",
                        "^modifiedby$", "^last[-_]?modified[-_]?by$",
                        "^editor$" >>],
       [semantic_type |-> "status",
        patterns |-> << "^status$", "^state$", "^is[-_]?active$", "^active$",
                        "^enabled$", "^is[-_]?enabled$" >>] >>

\* the character of a string at a place
CharAt(s, i) == SubSeq(s, i, i)

UpperCase == "ABCDEFGHIJKLMNOPQRSTUVWXYZ"

LowerCase == "abcdefghijklmnopqrstuvwxyz"

\* str.lower() and str.upper() on one character
LowerChar(c) ==
    IF \E i \in 1..Len(UpperCase) : CharAt(UpperCase, i) = c
    THEN CharAt(LowerCase, CHOOSE i \in 1..Len(UpperCase) : CharAt(UpperCase, i) = c)
    ELSE c

UpperChar(c) ==
    IF \E i \in 1..Len(LowerCase) : CharAt(LowerCase, i) = c
    THEN CharAt(UpperCase, CHOOSE i \in 1..Len(LowerCase) : CharAt(LowerCase, i) = c)
    ELSE c

RECURSIVE LowerFrom(_, _)
LowerFrom(s, i) ==
    IF i > Len(s) THEN "" ELSE LowerChar(CharAt(s, i)) \o LowerFrom(s, i + 1)

\* column_name.lower()
Lower(s) == LowerFrom(s, 1)

\* the character class with its quantifier, as the patterns write it
OptionalSeparator == "[-_]?"

\* the characters the class [-_] holds
SeparatorChars == {"-", "_"}

\* re.match from place i of the pattern and place j of the string, with
\* re.IGNORECASE: ^ matches at the start, $ at the end and before a newline
\* that ends the string, [-_]? one separator or nothing, any other
\* character itself in either case
RECURSIVE MatchFrom(_, _, _, _)
MatchFrom(pattern, i, string, j) ==
    IF i > Len(pattern) THEN TRUE
    ELSE LET ch == CharAt(pattern, i)
         IN  CASE ch = "^" -> j = 1 /\ MatchFrom(pattern, i + 1, string, j)
               [] ch = "$" ->
                    /\ \/ j = Len(string) + 1
                       \/ j = Len(string) /\ CharAt(string, j) = "\n"
                    /\ MatchFrom(pattern, i + 1, string, j)
               [] ch = "[" ->
                    \/ /\ j <= Len(string)
                       /\ CharAt(string, j) \in SeparatorChars
                       /\ MatchFrom(pattern, i + Len(OptionalSeparator), string, j + 1)
                    \/ MatchFrom(pattern, i + Len(OptionalSeparator), string, j)
               [] OTHER ->
                    /\ j <= Len(string)
                    /\ LowerChar(CharAt(string, j)) = LowerChar(ch)
                    /\ MatchFrom(pattern, i + 1, string, j + 1)

\* re.match(pattern, normalized, re.IGNORECASE)
ReMatch(pattern, string) == MatchFrom(pattern, 1, string, 1)

\* the roles one of whose patterns matches the normalized name, as places
\* of SEMANTIC_PATTERNS
MatchingRoles(normalized) ==
    {r \in 1..Len(SEMANTIC_PATTERNS) :
        \E p \in 1..Len(SEMANTIC_PATTERNS[r].patterns) :
            ReMatch(SEMANTIC_PATTERNS[r].patterns[p], normalized)}

\* detect_semantic_type: the first role of the dict with a matching pattern
DetectSemanticType(name) ==
    LET normalized == Lower(name)
        matching == MatchingRoles(normalized)
    IN  IF matching = {} THEN None
        ELSE SEMANTIC_PATTERNS[CHOOSE r \in matching :
                                   \A q \in matching : r <= q].semantic_type

\* the ways a name is written: all lower case, all upper case, or each
\* word capitalised
Casings == {"lower", "upper", "title"}

\* what is written where a pattern allows a separator
Separators == {"", "_", "-"}

\* the name a pattern stands for, written with a separator and a casing;
\* word_start tells that the next letter begins a word
RECURSIVE Spell(_, _, _, _, _)
Spell(pattern, i, separator, casing, word_start) ==
    IF i > Len(pattern) THEN ""
    ELSE LET ch == CharAt(pattern, i)
         IN  CASE ch \in {"^", "$"} ->
                    Spell(pattern, i + 1, separator, casing, word_start)
               [] ch = "[" ->
                    separator \o Spell(pattern, i + Len(OptionalSeparator),
                                       separator, casing, TRUE)
               [] OTHER ->
                    (IF casing = "upper" \/ (casing = "title" /\ word_start)
                     THEN UpperChar(ch) ELSE ch)
                    \o Spell(pattern, i + 1, separator, casing, FALSE)

\* the names the patterns of a role list, in lower case
ListedNames(r) ==
    {Spell(SEMANTIC_PATTERNS[r].patterns[p], 1, separator, "lower", TRUE) :
        p \in 1..Len(SEMANTIC_PATTERNS[r].patterns), separator \in Separators}

\* the listed names in every casing
WrittenNames ==
    UNION {{Spell(SEMANTIC_PATTERNS[r].patterns[p], 1, separator, casing, TRUE) :
               p \in 1..Len(SEMANTIC_PATTERNS[r].patterns),
               separator \in Separators, casing \in Casings} :
           r \in 1..Len(SEMANTIC_PATTERNS)}

\* names of columns that carry no role
UnrelatedNames == {"id", "name", "price", "username", "foo_bar"}

\* names that hold a listed name as a part: with a prefix, a suffix, a
\* doubled separator, or a line break before or after
EmbeddingNames ==
    UNION {{"x" \o n, n \o "x", "my_" \o n, n \o "_id", n \o "\n", "\n" \o n,
            n \o "\n\n"} :
           n \in UNION {ListedNames(r) : r \in 1..Len(SEMANTIC_PATTERNS)}}
    \cup UNION {{Spell(SEMANTIC_PATTERNS[r].patterns[p], 1, "__", "lower", TRUE) :
                    p \in 1..Len(SEMANTIC_PATTERNS[r].patterns)} :
                r \in 1..Len(SEMANTIC_PATTERNS)}

\* the column names a target database can bring
ColumnNames == WrittenNames \cup UnrelatedNames \cup EmbeddingNames

\* a call of detect_semantic_type
CallDetectSemanticType ==
    /\ pc = "boot"
    /\ \E name \in ColumnNames :
          /\ column_name' = name
          /\ detected' = [called |-> TRUE, role |-> DetectSemanticType(name)]
    /\ pc' = "detected"
    /\ UNCHANGED <<metadata, hashOrder, sortVars, progressVars, storyVars,
                   table_columns, table_semantics, crudVars, demoVars,
                   liveVars, txnVars>>

\* the names the columns of the target tables take
TableColumnNames == {"id", "name", "Created_At", "deleted-on", "author", "state\n"}

\* the types the columns are declared with; a column can have none
DeclaredTypes == {"", "INTEGER", "DATETIME"}

\* one column as PRAGMA table_info reports it
DeclaredColumns == [name : TableColumnNames, type : DeclaredTypes]

\* the column lists of tables of one or two columns; SQLite keeps the names
\* of a table distinct whatever their case
TableShapes ==
    {<<c>> : c \in DeclaredColumns}
    \cup {shape \in DeclaredColumns \X DeclaredColumns :
             Lower(shape[1].name) # Lower(shape[2].name)}

\* introspect_table: the ColumnInfo list, type=row['type'] or 'TEXT'
IntrospectColumns(shape) ==
    [i \in 1..Len(shape) |->
        [name |-> shape[i].name,
         type |-> IF shape[i].type = "" THEN "TEXT" ELSE shape[i].type]]

\* detect_semantic_type on each of the column names
DetectedRoles == [name \in TableColumnNames |-> DetectSemanticType(name)]

\* roles given to the columns that are not of an integer type only
AnalyzeTextColumns(columns) ==
    LET named == {columns[i].name : i \in {j \in 1..Len(columns) :
                      DetectedRoles[columns[j].name] # None
                          /\ columns[j].type # "INTEGER"}}
    IN  [name \in named |-> DetectedRoles[name]]

\* analyze_table_semantics, for the columns introspect_table returned: the
\* dict of the columns detect_semantic_type gives a role
AnalyzeTableSemantics(columns) ==
    LET named == {columns[i].name : i \in {j \in 1..Len(columns) :
                      DetectedRoles[columns[j].name] # None}}
    IN  [name \in named |-> DetectedRoles[name]]

\* no table has been analysed
NotAnalyzed == [table_name |-> None, columns |-> <<>>]

\* a call of analyze_table_semantics on a table of the target database
CallAnalyzeTableSemantics ==
    /\ pc \in {"boot", "analyzed"}
    /\ \E table_name \in Range(TableNames), shape \in TableShapes :
          /\ table_columns' = [table_name |-> table_name,
                               columns |-> IntrospectColumns(shape)]
          /\ table_semantics' = AnalyzeTableSemantics(IntrospectColumns(shape))
    /\ pc' = "analyzed"
    /\ UNCHANGED <<metadata, hashOrder, sortVars, progressVars, storyVars,
                   column_name, detected, crudVars, demoVars, liveVars,
                   txnVars>>

-----------------------------------------------------------------------------
(* crud.py: delete_row and list_rows over one table of the target          *)
(* database, with the semantics cached for it.                             *)

\* the most rows the table holds
MaxCrudRows == 2

\* the values of the key column, and a key no row has
KeyValues == 1..MaxCrudRows

MissingKey == MaxCrudRows + 1

\* SQL NULL and a text value
SqlNull == [null |-> TRUE, text |-> ""]

SqlText(t) == [null |-> FALSE, text |-> t]

\* datetime.now().strftime(...) at the call of delete_row, and an earlier time
Now == "2026-01-02 00:00:00"

Earlier == "2026-01-01 00:00:00"

\* the tables: a key column "id", declared primary key or not, alone or
\* followed by a column that is or is not a soft-delete marker
CrudShapes ==
    {<<[name |-> "id", type |-> "INTEGER", pk |-> pk]>> : pk \in BOOLEAN}
    \cup {<<[name |-> "id", type |-> "INTEGER", pk |-> pk],
            [name |-> second, type |-> "TEXT", pk |-> FALSE]>> :
             pk \in BOOLEAN, second \in {"name", "deleted-on"}}

\* the rows a table of these columns can hold: a primary key is unique, any
\* other column may repeat; the second column is NULL or holds a text
CrudRowsOf(columns) ==
    LET names == {columns[i].name : i \in 1..Len(columns)}
        RowValues == {[c \in names |-> IF c = "id" THEN key ELSE value] :
                         key \in KeyValues, value \in {SqlNull, SqlText(Earlier)}}
        Stored == UNION {[1..n -> RowValues] : n \in 0..MaxCrudRows}
    IN  {rows \in Stored :
            columns[1].pk => \A i, j \in 1..Len(rows) :
                                 i # j => rows[i]["id"] # rows[j]["id"]}

\* next((c.name for c in table_info.columns if c.pk), columns[0].name)
PkColumn(columns) ==
    IF \E i \in 1..Len(columns) : columns[i].pk
    THEN columns[CHOOSE i \in 1..Len(columns) :
                     columns[i].pk /\ \A j \in 1..Len(columns) : columns[j].pk => i <= j].name
    ELSE columns[1].name

\* get_soft_delete_column: the column the cached semantics give the role
\* deleted_at, or None
GetSoftDeleteColumn(semantics) ==
    IF \E col \in DOMAIN semantics : semantics[col] = "deleted_at"
    THEN CHOOSE col \in DOMAIN semantics : semantics[col] = "deleted_at"
    ELSE None

\* the rows a WHERE "pk_column" = ? selects, as places in the table
RowsWithKey(rows, pk_column, pk_value) ==
    {i \in 1..Len(rows) : rows[i][pk_column] = pk_value}

\* the rows left by DELETE FROM ... WHERE "pk_column" = ?
RECURSIVE WithoutKey(_, _, _)
WithoutKey(rows, pk_column, pk_value) ==
    IF rows = <<>> THEN <<>>
    ELSE IF Head(rows)[pk_column] = pk_value
         THEN WithoutKey(Tail(rows), pk_column, pk_value)
         ELSE <<Head(rows)>> \o WithoutKey(Tail(rows), pk_column, pk_value)

\* the DELETE statement whatever the semantics
DeleteRowHard(rows, pk_column, deleted_col, pk_value, now) ==
    [rows |-> WithoutKey(rows, pk_column, pk_value),
     returned |-> RowsWithKey(rows, pk_column, pk_value) # {}]

\* delete_row: the table after the statement and cursor.rowcount > 0
DeleteRow(rows, pk_column, deleted_col, pk_value, now) ==
    [rows |-> IF deleted_col # None
              THEN [i \in 1..Len(rows) |->
                      IF i \in RowsWithKey(rows, pk_column, pk_value)
                      THEN [rows[i] EXCEPT ![deleted_col] = SqlText(now)]
                      ELSE rows[i]]
              ELSE WithoutKey(rows, pk_column, pk_value),
     returned |-> RowsWithKey(rows, pk_column, pk_value) # {}]

\* the rows the WHERE clause of list_rows keeps, as places in the table
ListedPlaces(rows, deleted_col, include_deleted) ==
    {i \in 1..Len(rows) :
        (~include_deleted /\ deleted_col # None) => rows[i][deleted_col] = SqlNull}

\* ORDER BY "pk_column" ASC: the orders SQLite can give the places, rows of
\* equal key in any order
KeyOrders(rows, places, pk_column) ==
    {t \in PermSeqs(places) :
        \A i, j \in 1..Len(t) : i < j => rows[t[i]][pk_column] <= rows[t[j]][pk_column]}

\* the default page_size of list_rows
DefaultPageSize == 25

\* list_rows without sort_column and search: the results it can return
ListRows(rows, pk_column, deleted_col, page, page_size, include_deleted) ==
    LET places == ListedPlaces(rows, deleted_col, include_deleted)
        offset == (page - 1) * page_size
    IN  {[rows |-> [k \in 1..(IF Len(t) - offset > page_size THEN page_size
                               ELSE IF Len(t) > offset THEN Len(t) - offset ELSE 0) |->
                        rows[t[offset + k]]],
          total_count |-> Len(t)] : t \in KeyOrders(rows, places, pk_column)}

\* list_rows has not been called on the table as it is
NotListed == [called |-> FALSE]

\* the target database holds a table and its semantics are cached
OpenCrudTable ==
    /\ pc = "boot"
    /\ \E table_name \in Range(TableNames), columns \in CrudShapes :
          /\ table_columns' = [table_name |-> table_name, columns |-> columns]
          /\ table_semantics' = AnalyzeTableSemantics(columns)
          /\ \E rows \in CrudRowsOf(columns) : crud_rows' = rows
    /\ pc' = "crud"
    /\ UNCHANGED <<metadata, hashOrder, sortVars, progressVars, storyVars,
                   column_name, detected, crud_call, listing, demoVars,
                   liveVars, txnVars>>

\* a call of delete_row
CallDeleteRow ==
    /\ pc = "crud"
    /\ \E pk_value \in KeyValues \cup {MissingKey} :
          LET done == DeleteRow(crud_rows, PkColumn(table_columns.columns),
                                GetSoftDeleteColumn(table_semantics), pk_value, Now)
          IN  /\ crud_rows' = done.rows
              /\ crud_call' = [op |-> "delete_row", pk_value |-> pk_value,
                               returned |-> done.returned]
    /\ listing' = NotListed
    /\ UNCHANGED <<metadata, hashOrder, sortVars, progressVars, storyVars,
                   semanticVars, pc, demoVars, liveVars, txnVars>>

\* a call of list_rows, for a page of the default size or of one row
CallListRows ==
    /\ pc = "crud"
    /\ \E include_deleted \in BOOLEAN, page \in 1..MaxCrudRows,
          page_size \in {1, DefaultPageSize} :
          \E returned \in ListRows(crud_rows, PkColumn(table_columns.columns),
                                   GetSoftDeleteColumn(table_semantics),
                                   page, page_size, include_deleted) :
              listing' = [called |-> TRUE, include_deleted |-> include_deleted,
                          page |-> page, page_size |-> page_size,
                          rows |-> returned.rows,
                          total_count |-> returned.total_count]
    /\ UNCHANGED <<metadata, hashOrder, sortVars, progressVars, storyVars,
                   semanticVars, crud_rows, crud_call, pc, demoVars, liveVars,
                   txnVars>>

\* SELECT COUNT(*) FROM the table, without a WHERE on the marker
RowCountOfLive(rows, deleted_col) ==
    Cardinality(ListedPlaces(rows, deleted_col, FALSE))

\* SELECT COUNT(*) FROM "table_name" of get_table_row_count: every stored
\* row, whatever the soft-delete column of the table holds
RowCountOf(rows, deleted_col) == Len(rows)

\* the step of the story that stands for the table
StepOfTable(required) ==
    [source_type |-> "table", source_name |-> table_columns.table_name,
     min_records_required |-> required]

\* get_step_progress for that step, over the loaded target database holding
\* the table with these rows
ProgressOfTable(rows, required) ==
    GetStepProgress(StepOfTable(required), "target.db",
                    table_columns.table_name :>
                        RowCountOf(rows, GetSoftDeleteColumn(table_semantics)))

\* a call of get_step_progress for the step of the table, which asks for one
\* row as regeneration stores it
CallGetStepProgressOfTable ==
    /\ pc = "crud"
    /\ step' = StepOfTable(1)
    /\ progress' = ProgressOfTable(crud_rows, 1)
    /\ UNCHANGED <<metadata, hashOrder, sortVars, target_db_path, target_rows,
                   storyVars, semanticVars, crudVars, pc, demoVars, liveVars,
                   txnVars>>

-----------------------------------------------------------------------------
(* clear_demo_data and clear_all_demo_data *)

\* the list handed on as it is
ReversedNever(s) == s

\* list(reversed(s))
Reversed(s) == [i \in 1..Len(s) |-> s[Len(s) + 1 - i]]

\* clear_demo_data: the count it returns and the tables it leaves; a table
\* the target database lacks raises inside the try and gives 0
ClearDemoData(path, tables, table_name) ==
    IF path # None /\ table_name \in DOMAIN tables
    THEN [count |-> tables[table_name],
          tables |-> [tables EXCEPT ![table_name] = 0]]
    ELSE [count |-> 0, tables |-> tables]

\* the schema cache is filled from a target database whose tables hold a
\* row each
CacheFilledTarget ==
    /\ pc = "boot"
    /\ metadata' \in SortSchemas
    /\ hashOrder' \in PermSeqs(NamesOf(metadata'))
    /\ target_db_path' = "target.db"
    /\ target_rows' = OneRowEach(Range(TableNames))
    /\ pc' = "idle"
    /\ UNCHANGED <<sortVars, step, progress, storyVars, semanticVars, crudVars,
                   demoVars, liveVars, txnVars>>

\* clear_all_demo_data, line 853: the sort is run and reversed
ClearAllStart ==
    /\ pc = "idle"
    /\ graph' = BuildDependencyGraph(metadata)
    /\ tables_to_clear' = Reversed(TopologicalSortTables(metadata, hashOrder))
    /\ results' = EmptyDict
    /\ cleared' = <<>>
    /\ pc' = "clearing"
    /\ UNCHANGED <<metadata, hashOrder, queue, result, visited, progressVars,
                   storyVars, semanticVars, crudVars, liveVars, txnVars>>

\* lines 856-858: one iteration of the for loop
ClearNextTable ==
    /\ pc = "clearing"
    /\ Len(cleared) < Len(tables_to_clear)
    /\ LET table_name == tables_to_clear[Len(cleared) + 1]
           done == ClearDemoData(target_db_path, target_rows, table_name)
       IN  /\ target_rows' = done.tables
           /\ results' = [t \in DOMAIN results \cup {table_name} |->
                             IF t = table_name THEN done.count ELSE results[t]]
           /\ cleared' = Append(cleared, table_name)
    /\ UNCHANGED <<metadata, hashOrder, sortVars, pc, target_db_path, step,
                   progress, storyVars, semanticVars, crudVars, tables_to_clear,
                   liveVars, txnVars>>

\* line 860: the loop is over and results is returned
ClearAllReturn ==
    /\ pc = "clearing"
    /\ Len(cleared) = Len(tables_to_clear)
    /\ pc' = "cleared"
    /\ UNCHANGED <<metadata, hashOrder, sortVars, progressVars, storyVars,
                   semanticVars, crudVars, demoVars, liveVars, txnVars>>

-----------------------------------------------------------------------------
(* The live target database against the schema cache: lifespan, the       *)
(* reload-schema, clear-cache and switch-database routes, reset_story.     *)

\* the schemas a target database can have: the first table alone or the
\* first two, with one foreign key or none, to a table present or not
LiveSchemas ==
    UNION {{MetadataOf(present, rows) :
               rows \in {<<>>} \cup {<<r>> : r \in present \X {TableNames[1], TableNames[2]}}} :
           present \in {{1}, {1, 2}}}

\* lifespan on an empty system database: cache_table_metadata reads the live
\* schema, then cache_dependency_graph and initialize_story_steps run
StartOnTarget ==
    /\ pc = "boot"
    /\ live_schema' \in LiveSchemas
    /\ metadata' = live_schema'
    /\ hashOrder' \in PermSeqs({TableNames[1], TableNames[2]})
    /\ table_dependencies' = CachedDependencies(metadata')
    /\ \E steps \in {GenerateDefaultStorySteps(metadata', hashOrder')} :
          /\ generated' = [called |-> TRUE, steps |-> steps]
          /\ story_steps' = ReplaceSteps(story_steps, steps, next_id)
          /\ next_id' = next_id + Len(steps)
    /\ call' = [op |-> "initialize"]
    /\ pc' = "story"
    /\ UNCHANGED <<sortVars, progressVars, answer, semanticVars, crudVars, demoVars,
                   txnVars>>

\* the schema of the target database is changed from outside the application
ChangeSchema ==
    /\ pc = "story"
    /\ live_schema' \in LiveSchemas \ {live_schema}
    /\ call' = [op |-> "schema_change"]
    /\ UNCHANGED <<metadata, hashOrder, sortVars, pc, progressVars, generated,
                   story_steps, next_id, answer, table_dependencies, semanticVars,
                   crudVars, demoVars, txnVars>>

\* the reload-schema route: cache_table_metadata re-introspects the target
ReloadSchema ==
    /\ pc = "story"
    /\ metadata' = live_schema
    /\ call' = [op |-> "reload_schema"]
    /\ UNCHANGED <<hashOrder, sortVars, pc, progressVars, generated, story_steps,
                   next_id, answer, table_dependencies, semanticVars, crudVars,
                   demoVars, liveVars, txnVars>>

\* the clear-cache route: clear_metadata_cache empties table_metadata
ClearCache ==
    /\ pc = "story"
    /\ metadata' = <<>>
    /\ call' = [op |-> "clear_cache"]
    /\ UNCHANGED <<hashOrder, sortVars, pc, progressVars, generated, story_steps,
                   next_id, answer, table_dependencies, semanticVars, crudVars,
                   demoVars, liveVars, txnVars>>

\* the switch-database route: another file becomes the target and
\* clear_metadata_cache, cache_table_metadata run on it
SwitchDatabase ==
    /\ pc = "story"
    /\ live_schema' \in LiveSchemas
    /\ metadata' = live_schema'
    /\ call' = [op |-> "switch_database"]
    /\ UNCHANGED <<hashOrder, sortVars, pc, progressVars, generated, story_steps,
                   next_id, answer, table_dependencies, semanticVars, crudVars,
                   demoVars, txnVars>>

-----------------------------------------------------------------------------
(* cache_dependency_graph and get_cached_dependencies *)

\* the schema cache is refreshed from a target database of any schema
ReloadGraphSchema ==
    /\ pc = "story"
    /\ live_schema' \in GraphSchemas
    /\ metadata' = live_schema'
    /\ call' = [op |-> "reload_schema"]
    /\ pc' = "idle"
    /\ UNCHANGED <<hashOrder, sortVars, progressVars, generated, story_steps,
                   next_id, answer, table_dependencies, semanticVars, crudVars,
                   demoVars, txnVars>>

\* a call of cache_dependency_graph
CallCacheDependencyGraph ==
    /\ pc = "idle"
    /\ graph' = BuildDependencyGraph(metadata)
    /\ table_dependencies' = CachedDependencies(metadata)
    /\ call' = [op |-> "cache_dependency_graph"]
    /\ pc' = "cached"
    /\ UNCHANGED <<metadata, hashOrder, queue, result, visited, progressVars,
                   generated, story_steps, next_id, answer, semanticVars,
                   crudVars, demoVars, liveVars, txnVars>>

\* a call of get_cached_dependencies: the rows as dicts
CallGetCachedDependencies ==
    /\ pc = "cached"
    /\ answer' = [of |-> "get_cached_dependencies",
                  value |-> [i \in 1..Len(table_dependencies) |->
                                [from_table |-> table_dependencies[i][1],
                                 to_table |-> table_dependencies[i][2]]]]
    /\ pc' = "asked"
    /\ UNCHANGED <<metadata, hashOrder, sortVars, progressVars, generated,
                   story_steps, next_id, call, table_dependencies, semanticVars,
                   crudVars, demoVars, liveVars, txnVars>>

-----------------------------------------------------------------------------
(* regenerate_story_steps statement by statement, beside a reader *)

\* a connection that commits each statement as it is executed
CommittedByStatementAtOnce(committed, rows) == rows

\* the rows of the database file after a statement has left the table of
\* the writing connection as rows: sqlite3 has opened a transaction before
\* the DELETE, and nothing is written for others until conn.commit()
CommittedByStatement(committed, rows) == committed

\* regenerate_story_steps up to its DELETE: the steps are generated, the
\* connection is opened and the DELETE empties its table
RegenerateDelete ==
    /\ pc = "story"
    /\ ~txn.open
    /\ next_id + Len(story_steps) - 1 <= MaxStepId
    /\ \E steps \in {GenerateDefaultStorySteps(metadata, hashOrder)} :
          /\ generated' = [called |-> TRUE, steps |-> steps]
          /\ txn' = [open |-> TRUE, old |-> story_steps, rows |-> <<>>,
                     steps |-> steps, first_id |-> next_id, inserted |-> 0]
    /\ story_steps' = CommittedByStatement(story_steps, txn'.rows)
    /\ pc' = "regenerating"
    /\ UNCHANGED <<metadata, hashOrder, sortVars, progressVars, next_id, call,
                   answer, table_dependencies, semanticVars, crudVars, demoVars,
                   liveVars>>

\* one turn of the INSERT loop
RegenerateInsert ==
    /\ pc = "regenerating"
    /\ txn.inserted < Len(txn.steps)
    /\ txn' = [txn EXCEPT
                  !.rows = Append(@, StoredSteps(txn.steps, txn.first_id)
                                         [txn.inserted + 1]),
                  !.inserted = @ + 1]
    /\ story_steps' = CommittedByStatement(story_steps, txn'.rows)
    /\ UNCHANGED <<metadata, hashOrder, sortVars, pc, progressVars, generated,
                   next_id, call, answer, table_dependencies, semanticVars,
                   crudVars, demoVars, liveVars>>

\* conn.commit() after the loop, and the return
RegenerateCommit ==
    /\ pc = "regenerating"
    /\ txn.inserted = Len(txn.steps)
    /\ story_steps' = txn.rows
    /\ next_id' = txn.first_id + Len(txn.steps)
    /\ call' = [op |-> "regenerate", replaced_edits |-> Edited(txn.old)]
    /\ txn' = NoTransaction
    /\ pc' = "story"
    /\ UNCHANGED <<metadata, hashOrder, sortVars, progressVars, generated,
                   answer, table_dependencies, semanticVars, crudVars, demoVars,
                   liveVars>>

\* the process dies before conn.commit(): what the transaction did is rolled
\* back, and the server is started again with a hash seed of its own
RegenerateCrash ==
    /\ pc = "regenerating"
    /\ txn' = NoTransaction
    /\ hashOrder' \in PermSeqs(NamesOf(metadata))
    /\ pc' = "story"
    /\ UNCHANGED <<metadata, sortVars, progressVars, generated, story_steps,
                   next_id, call, answer, table_dependencies, semanticVars,
                   crudVars, demoVars, liveVars>>

\* a call of get_story_steps in another request, on a connection of its own,
\* while regenerate_story_steps is running or not
ConcurrentGetStorySteps ==
    /\ pc \in {"story", "regenerating"}
    /\ \E include_disabled \in BOOLEAN :
          \E value \in GetStorySteps(story_steps, include_disabled) :
              answer' = [of |-> "get_story_steps",
                         include_disabled |-> include_disabled,
                         concurrent |-> txn.open, value |-> value]
    /\ UNCHANGED <<metadata, hashOrder, sortVars, pc, progressVars, generated,
                   story_steps, next_id, call, table_dependencies, semanticVars,
                   crudVars, demoVars, liveVars, txnVars>>

-----------------------------------------------------------------------------
(* The specification: the process starts, the schema cache is filled from  *)
(* the live target database, and topological_sort_tables runs over it.     *)

Init ==
    /\ metadata = <<>>
    /\ hashOrder = <<>>
    /\ graph = EmptyGraph
    /\ queue = <<>>
    /\ result = <<>>
    /\ visited = {}
    /\ pc = "boot"
    /\ target_db_path = None
    /\ target_rows = EmptyDict
    /\ step = NoStep
    /\ progress = NoProgress
    /\ generated = NotGenerated
    /\ story_steps = <<>>
    /\ next_id = 1
    /\ call = NoCall
    /\ answer = NoAnswer
    /\ table_dependencies = <<>>
    /\ column_name = ""
    /\ detected = NotDetected
    /\ table_columns = NotAnalyzed
    /\ table_semantics = EmptyDict
    /\ crud_rows = <<>>
    /\ crud_call = NoCall
    /\ listing = NotListed
    /\ tables_to_clear = <<>>
    /\ cleared = <<>>
    /\ results = EmptyDict
    /\ live_schema = <<>>
    /\ txn = NoTransaction

Next == CacheTableMetadata \/ TopoStart \/ TopoVisit \/ TopoSkip \/ TopoFinish

Spec == Init /\ [][Next]_vars

\* the schema cache is filled and build_dependency_graph is called
NextGraph == CacheGraphMetadata \/ BuildGraph

SpecGraph == Init /\ [][NextGraph]_vars

\* a target database and a step are there and get_step_progress is called
NextProgress == LoadTargetAndStep \/ CallGetStepProgress

SpecProgress == Init /\ [][NextProgress]_vars

\* the schema cache is filled and generate_default_story_steps is called
NextGenerate == CacheTableMetadata \/ CallGenerateDefaultStorySteps

SpecGenerate == Init /\ [][NextGenerate]_vars

\* the story is set up at the first start and then regenerated, reset,
\* edited and reordered by the admin, across restarts
NextStory ==
    \/ StartStory
    \/ NewProcess
    \/ RegenerateStorySteps
    \/ ResetStory
    \/ CallUpdateStoryStep
    \/ CallReorderStorySteps

SpecStory == Init /\ [][NextStory]_vars

\* a stored story is asked for its progress and its current step
NextQuery == LoadStory \/ CallGetStoryProgress \/ CallGetCurrentStoryStep

SpecQuery == Init /\ [][NextQuery]_vars

\* column names and tables are classified
NextSemantics == CallDetectSemanticType \/ CallAnalyzeTableSemantics

SpecSemantics == Init /\ [][NextSemantics]_vars

\* rows of a table are deleted and listed
NextCrud == OpenCrudTable \/ CallDeleteRow \/ CallListRows

SpecCrud == Init /\ [][NextCrud]_vars

\* the tables of a filled target database are cleared
NextClear == CacheFilledTarget \/ ClearAllStart \/ ClearNextTable \/ ClearAllReturn

SpecClear == Init /\ [][NextClear]_vars

\* the target changes, the cache is refreshed or not, the story is reset
NextReset ==
    \/ StartOnTarget
    \/ ChangeSchema
    \/ ReloadSchema
    \/ ClearCache
    \/ SwitchDatabase
    \/ ResetStory

SpecReset == Init /\ [][NextReset]_vars

\* the dependencies are persisted again after another schema was cached
NextDeps ==
    \/ StartOnTarget
    \/ ReloadGraphSchema
    \/ CallCacheDependencyGraph
    \/ CallGetCachedDependencies

SpecDeps == Init /\ [][NextDeps]_vars

\* deleting rows of a table while the story asks for its progress
NextSoftProgress == OpenCrudTable \/ CallDeleteRow \/ CallGetStepProgressOfTable

SpecSoftProgress == Init /\ [][NextSoftProgress]_vars

\* the story is regenerated statement by statement while it is read
NextAtomic ==
    \/ StartStory
    \/ RegenerateDelete
    \/ RegenerateInsert
    \/ RegenerateCommit
    \/ RegenerateCrash
    \/ ConcurrentGetStorySteps

SpecAtomic == Init /\ [][NextAtomic]_vars

\* the steps of one call of topological_sort_tables
TopoNext == TopoStart \/ TopoVisit \/ TopoSkip \/ TopoFinish

\* a call that has been made runs on: the interpreter takes its next step
SpecFair == Init /\ [][Next]_vars /\ WF_vars(TopoNext)

-----------------------------------------------------------------------------
(* Vocabulary of the properties *)

EdgeSet(g) == Range(g.edges)

MetadataNames == {metadata[i].table_name : i \in 1..Len(metadata)}

\* the position of x in a list that holds it
Pos(s, x) == CHOOSE i \in 1..Len(s) : s[i] = x

\* how many entries of the list s satisfy Test
CountIn(s, Test(_)) == Cardinality({i \in 1..Len(s) : Test(s[i])})

RECURSIVE Grow(_, _)
Grow(g, S) ==
    LET T == S \cup {e[2] : e \in {d \in EdgeSet(g) : d[1] \in S}}
    IN  IF T = S THEN S ELSE Grow(g, T)

\* the nodes reached from n by following one or more references
ReachableFrom(g, n) == Grow(g, {e[2] : e \in {d \in EdgeSet(g) : d[1] = n}})

OnCycle(g, n) == n \in ReachableFrom(g, n)

Acyclic(g) == \A n \in g.nodes : ~OnCycle(g, n)

InDeg(t) == Get(graph.in_degree, t, 0)

\* the metadata without row j of table i's foreign keys
RemoveFk(meta, i, j) ==
    [meta EXCEPT ![i].foreign_keys =
        SubSeq(@, 1, j - 1) \o SubSeq(@, j + 1, Len(@))]

-----------------------------------------------------------------------------
(* C1: when topological_sort_tables returns, its result holds every node   *)
(* of the dependency graph exactly once and nothing else, whatever cycles, *)
(* self-references, dangling references or repeated foreign keys the       *)
(* schema has.                                                             *)
SortReturnsEveryNodeOnce ==
    pc = "done" =>
        /\ Range(result) = graph.nodes
        /\ Len(result) = Cardinality(graph.nodes)

\* a finished sort of a cyclic schema that also has a dangling reference
SortedCyclicWithDangling ==
    /\ pc = "done"
    /\ ~Acyclic(graph)
    /\ \E n \in graph.nodes : n \notin MetadataNames

(* C2: for an acyclic graph, every referenced table B of an edge (A, B)    *)
(* stands strictly before the referencing table A in the returned order.   *)
AcyclicReferencedFirst ==
    (pc = "done" /\ Acyclic(graph)) =>
        \A e \in EdgeSet(graph) : Pos(result, e[2]) < Pos(result, e[1])

\* a finished sort of an acyclic schema with a chain of two references
SortedAcyclicChain ==
    /\ pc = "done"
    /\ Acyclic(graph)
    /\ \E e1, e2 \in EdgeSet(graph) : e1[2] = e2[1]

(* C3: whenever the loop is about to dequeue, the table at the front of    *)
(* the queue has an in-degree at least that of every table waiting in the  *)
(* queue, so a waiting table of greater in-degree is never placed later.   *)
DequeuedHasGreatestInDegree ==
    pc = "loop" =>
        \A i \in 1..Len(queue) : InDeg(queue[1]) >= InDeg(queue[i])

\* a table enqueued by the loop has overtaken a seeded root of smaller in-degree
EnqueuedOvertakesRoot ==
    /\ pc = "loop"
    /\ visited # {}
    /\ Len(queue) >= 2
    /\ RefCount(graph, queue[1]) > 0
    /\ RefCount(graph, queue[2]) = 0
    /\ InDeg(queue[1]) > InDeg(queue[2])

(* C4: over every cached schema, a call of topological_sort_tables         *)
(* terminates: the queue empties and the function returns.                 *)
SortTerminates == (pc = "idle") ~> (pc = "done" /\ queue = <<>>)

\* a finished sort of a schema with a self-referencing table and a longer cycle
SortedSelfReferenceAndCycle ==
    /\ pc = "done"
    /\ \E t, u \in graph.nodes :
          /\ t # u
          /\ <<t, t>> \in EdgeSet(graph)
          /\ u \in ReachableFrom(graph, t)
          /\ t \in ReachableFrom(graph, u)

(* C5 as stated: both endpoints of every edge are nodes, and every         *)
(* referenced table without a metadata record is a node, has its edge      *)
(* recorded and has degree entries with out_degree 0.                      *)
EveryDanglingReferenceIsNode ==
    pc = "built" =>
        /\ \A e \in EdgeSet(graph) : e[1] \in graph.nodes /\ e[2] \in graph.nodes
        /\ \A i \in 1..Len(metadata) :
             \A j \in 1..Len(metadata[i].foreign_keys) :
                LET ref == metadata[i].foreign_keys[j].table
                IN  ref \notin MetadataNames =>
                        /\ ref \in graph.nodes
                        /\ <<metadata[i].table_name, ref>> \in EdgeSet(graph)
                        /\ ref \in DOMAIN graph.in_degree
                        /\ ref \in DOMAIN graph.out_degree
                        /\ graph.out_degree[ref] = 0

(* C5, amended: both endpoints of every edge are nodes, and every          *)
(* referenced table with a non-empty name and no metadata record is a      *)
(* node, has its edge recorded and has degree entries with out_degree 0; a *)
(* foreign-key row with an empty referenced table adds no edge.            *)
NamedDanglingReferenceIsNode ==
    pc = "built" =>
        /\ \A e \in EdgeSet(graph) : e[1] \in graph.nodes /\ e[2] \in graph.nodes
        /\ \A i \in 1..Len(metadata) :
             \A j \in 1..Len(metadata[i].foreign_keys) :
                LET ref == metadata[i].foreign_keys[j].table
                IN  /\ (ref \notin MetadataNames /\ ref # NoTable) =>
                        /\ ref \in graph.nodes
                        /\ <<metadata[i].table_name, ref>> \in EdgeSet(graph)
                        /\ ref \in DOMAIN graph.in_degree
                        /\ ref \in DOMAIN graph.out_degree
                        /\ graph.out_degree[ref] = 0
                    /\ ref = NoTable =>
                        <<metadata[i].table_name, ref>> \notin EdgeSet(graph)

\* a built graph with a node that has no metadata record
GraphWithDanglingNode ==
    /\ pc = "built"
    /\ \E e \in EdgeSet(graph) : e[2] \notin MetadataNames /\ e[2] \in graph.nodes

(* C6: for every node, in_degree is the length of its incoming list and    *)
(* out_degree the length of its outgoing list (no list counting as 0),     *)
(* which are the numbers of edge entries into and out of it; a table with  *)
(* no foreign keys and no referrers has both degrees 0.                    *)
DegreesAreListLengths ==
    pc = "built" =>
        \A t \in graph.nodes :
            /\ graph.in_degree[t] = Len(Get(graph.incoming, t, <<>>))
            /\ graph.out_degree[t] = Len(Get(graph.outgoing, t, <<>>))
            /\ graph.in_degree[t] = CountIn(graph.edges, LAMBDA e : e[2] = t)
            /\ graph.out_degree[t] = CountIn(graph.edges, LAMBDA e : e[1] = t)
            /\ (\A e \in EdgeSet(graph) : e[1] # t /\ e[2] # t) =>
                  graph.in_degree[t] = 0 /\ graph.out_degree[t] = 0

\* a built graph with a table referenced by two rows and an isolated table
GraphWithSharedAndIsolated ==
    /\ pc = "built"
    /\ \E t, u \in graph.nodes :
          /\ graph.in_degree[t] >= 2
          /\ \A e \in EdgeSet(graph) : e[1] # u /\ e[2] # u

(* C7 as stated: in_degree is the number of distinct tables referencing a  *)
(* node and out_degree the number of distinct tables it references.        *)
DegreesCountDistinctTables ==
    pc = "built" =>
        \A t \in graph.nodes :
            /\ graph.in_degree[t] = Cardinality({e[1] : e \in {d \in EdgeSet(graph) : d[2] = t}})
            /\ graph.out_degree[t] = Cardinality({e[2] : e \in {d \in EdgeSet(graph) : d[1] = t}})

(* C8: a foreign key from a table to itself gives the edge (t, t), puts t  *)
(* in outgoing[t] and incoming[t], and against the same schema without     *)
(* that row raises in_degree[t] and out_degree[t] by exactly one and       *)
(* leaves the nodes and every other table's degrees unchanged.             *)
SelfReferenceAddsOneToBothDegrees ==
    pc = "built" =>
        \A i \in 1..Len(metadata) :
            \A j \in 1..Len(metadata[i].foreign_keys) :
                LET t == metadata[i].table_name
                    without == BuildDependencyGraph(RemoveFk(metadata, i, j))
                IN  (metadata[i].foreign_keys[j].table = t) =>
                        /\ <<t, t>> \in EdgeSet(graph)
                        /\ t \in Range(Get(graph.outgoing, t, <<>>))
                        /\ t \in Range(Get(graph.incoming, t, <<>>))
                        /\ without.nodes = graph.nodes
                        /\ graph.in_degree[t] = without.in_degree[t] + 1
                        /\ graph.out_degree[t] = without.out_degree[t] + 1
                        /\ \A u \in graph.nodes \ {t} :
                              /\ graph.in_degree[u] = without.in_degree[u]
                              /\ graph.out_degree[u] = without.out_degree[u]

\* a built graph with a self-referencing table that another table references
GraphWithSelfReference ==
    /\ pc = "built"
    /\ \E t, u \in graph.nodes :
          /\ t # u
          /\ <<t, t>> \in EdgeSet(graph)
          /\ <<u, t>> \in EdgeSet(graph)

\* the row-count lookup of the step's table fails
LookupFails ==
    /\ step.source_type = "table"
    /\ (target_db_path = None \/ step.source_name \notin DOMAIN target_rows)

(* C9 as stated: for a table step with required r and live row count c,    *)
(* get_step_progress returns current_count = c, required = r, is_complete  *)
(* = (c >= r) and percentage = min(100, floor(100*c/r)) when r > 0, and    *)
(* 100 when r = 0.                                                         *)
PercentageIsFloorOfRatio ==
    (pc = "returned" /\ step.source_type = "table" /\ ~LookupFails) =>
        LET c == target_rows[step.source_name]
            r == step.min_records_required
        IN  /\ ~progress.raised
            /\ progress.current_count = c
            /\ progress.required = r
            /\ progress.is_complete = (c >= r)
            /\ progress.percentage =
                  IF r > 0 THEN Min(100, (100 * c) \div r) ELSE 100

(* C10: get_step_progress never raises, whatever the step's threshold and  *)
(* the row count; when the row-count lookup fails (no target database      *)
(* loaded, or the step's table is not in it) the step counts 0 rows.       *)
ProgressIsTotal ==
    pc = "returned" =>
        /\ ~progress.raised
        /\ progress.required = step.min_records_required
        /\ LookupFails => progress.current_count = 0

\* progress returned for a step with a large threshold whose table is gone
ProgressOfDroppedTable ==
    /\ pc = "returned"
    /\ target_db_path # None
    /\ step.source_type = "table"
    /\ step.source_name \notin DOMAIN target_rows
    /\ step.min_records_required = MaxRequired
    /\ progress.current_count = 0
    /\ ~progress.is_complete

(* C13: generate_default_story_steps returns one step per node of the      *)
(* dependency graph, in the order of topological_sort_tables, the step at  *)
(* position i (counted from 0) having order_index i, source_type 'table',  *)
(* min_records_required 1 and enabled true.                                *)
DefaultStepsFollowSort ==
    pc = "generated" =>
        LET steps == generated.steps
            sorted == TopologicalSortTables(metadata, hashOrder)
            nodes == BuildDependencyGraph(metadata).nodes
        IN  /\ Len(steps) = Cardinality(nodes)
            /\ {steps[i].source_name : i \in 1..Len(steps)} = nodes
            /\ Len(steps) = Len(sorted)
            /\ \A i \in 1..Len(steps) :
                  /\ steps[i].source_name = sorted[i]
                  /\ steps[i].order_index = i - 1
                  /\ steps[i].source_type = "table"
                  /\ steps[i].min_records_required = 1
                  /\ steps[i].enabled
            /\ {steps[i].order_index : i \in 1..Len(steps)} = 0..Len(steps) - 1

\* steps generated for a schema with a dangling reference and a cycle
GeneratedForDanglingAndCycle ==
    /\ pc = "generated"
    /\ Len(generated.steps) = NumTables + 1
    /\ \E i \in 1..Len(generated.steps) :
          /\ generated.steps[i].source_name = DanglingName
          /\ generated.steps[i].order_index = i - 1
    /\ ~Acyclic(BuildDependencyGraph(metadata))

(* C14 as stated: two calls of generate_default_story_steps (or of         *)
(* regenerate_story_steps) over the same cached metadata return the same   *)
(* ordered list of steps: source names, order_index values, titles and     *)
(* descriptions.                                                           *)
RegenerationRepeats ==
    [][(generated.called /\ generated'.called /\ metadata' = metadata)
          => generated'.steps = generated.steps]_vars

(* C15: after regenerate_story_steps or reset_story, whatever edits came   *)
(* before, the stored steps are exactly the freshly generated defaults:    *)
(* rule-derived title and description, enabled, min_records_required 1 and *)
(* order_index equal to the topological position.                          *)
RegenerationReplacesEdits ==
    (pc = "story" /\ call.op \in {"regenerate", "reset"}) =>
        LET sorted == TopologicalSortTables(metadata, hashOrder)
            g == BuildDependencyGraph(metadata)
        IN  /\ Len(story_steps) = Len(sorted)
            /\ \A r \in 1..Len(story_steps) :
                  /\ story_steps[r].source_name = sorted[r]
                  /\ story_steps[r].order_index = r - 1
                  /\ story_steps[r].title = Title(sorted[r])
                  /\ story_steps[r].description =
                        Description(Get(g.out_degree, sorted[r], 0),
                                    Get(g.in_degree, sorted[r], 0))
                  /\ story_steps[r].min_records_required = 1
                  /\ story_steps[r].enabled = 1
                  /\ story_steps[r].source_type = "table"
                  /\ StoryStepOf(story_steps[r]).enabled
            /\ \A res \in GetStorySteps(story_steps, TRUE) :
                  [i \in 1..Len(res) |-> res[i].source_name] = sorted

\* a regeneration that has replaced edited steps
RegeneratedOverEdits ==
    /\ pc = "story"
    /\ call.op \in {"regenerate", "reset"}
    /\ call.replaced_edits

(* C16 as stated: in every state reached by regenerate_story_steps,        *)
(* reset_story, update_story_step and reorder_story_steps calls, every     *)
(* stored step has order_index >= 0 and no two enabled steps share an      *)
(* order_index.                                                            *)
OrderIndexUniqueAndNatural ==
    pc = "story" =>
        /\ \A r \in 1..Len(story_steps) : story_steps[r].order_index >= 0
        /\ \A r, q \in 1..Len(story_steps) :
              (r # q /\ story_steps[r].enabled = 1 /\ story_steps[q].enabled = 1)
                  => story_steps[r].order_index # story_steps[q].order_index

(* C19: when reorder_story_steps is given a permutation of all stored step *)
(* ids, get_story_steps(include_disabled=True) afterwards returns the      *)
(* steps in that order, the step at position i (from 0) having order_index *)
(* i, and no field of any step other than order_index has changed.         *)
ReorderByPermutationOrdersSteps ==
    [][(call'.op = "reorder" /\ call'.step_ids # <<>>) =>
          /\ GetStorySteps(story_steps', TRUE) # {}
          /\ \A res \in GetStorySteps(story_steps', TRUE) :
                /\ Len(res) = Len(call'.step_ids)
                /\ \A i \in 1..Len(res) :
                      res[i].id = call'.step_ids[i] /\ res[i].order_index = i - 1
          /\ Len(story_steps') = Len(story_steps)
          /\ \A r \in 1..Len(story_steps) :
                [story_steps'[r] EXCEPT !.order_index = story_steps[r].order_index]
                    = story_steps[r]]_vars

\* a reorder by a permutation that has put a later row first, one step being
\* disabled
ReorderedAgainstRowOrder ==
    /\ pc = "story"
    /\ call.op = "reorder"
    /\ call.step_ids # <<>>
    /\ call.step_ids[1] = story_steps[Len(story_steps)].id
    /\ story_steps[Len(story_steps)].order_index = 0
    /\ \E r \in 1..Len(story_steps) : story_steps[r].enabled = 0

\* the rows a stored step's table holds in the target database
LiveRows(row) ==
    IF row.source_type = "table" /\ target_db_path # None
          /\ row.source_name \in DOMAIN target_rows
    THEN target_rows[row.source_name] ELSE 0

\* the stored steps that are enabled, and those of them that are complete
EnabledRows == {story_steps[r] : r \in {q \in 1..Len(story_steps) : story_steps[q].enabled = 1}}

CompleteRows == {row \in EnabledRows : LiveRows(row) >= row.min_records_required}

(* C11 as stated: get_story_progress counts the enabled steps only:        *)
(* total_steps is their number, completed_steps the number of them that    *)
(* are complete, overall_percentage = floor(100 * completed_steps /        *)
(* total_steps), and with no enabled step overall_percentage = 100 and     *)
(* is_complete is true.                                                    *)
OverallPercentageIsFloor ==
    (pc = "asked" /\ answer.of = "get_story_progress") =>
        /\ answer.value.total_steps = Cardinality(EnabledRows)
        /\ answer.value.completed_steps = Cardinality(CompleteRows)
        /\ answer.value.overall_percentage =
              IF EnabledRows = {} THEN 100
              ELSE (100 * Cardinality(CompleteRows)) \div Cardinality(EnabledRows)
        /\ EnabledRows = {} => answer.value.is_complete

(* C12: get_current_story_step returns the enabled incomplete step with    *)
(* the smallest order_index, and None exactly when every enabled step is   *)
(* complete or no step is enabled; every enabled step with a smaller       *)
(* order_index than the returned step is complete.                         *)
CurrentStepIsFirstIncomplete ==
    (pc = "asked" /\ answer.of = "get_current_story_step") =>
        IF EnabledRows \ CompleteRows = {} THEN ~answer.value.found
        ELSE /\ answer.value.found
             /\ \E row \in EnabledRows \ CompleteRows :
                   /\ answer.value.info.step = StoryStepOf(row)
                   /\ ~answer.value.info.progress.is_complete
                   /\ \A other \in EnabledRows \ CompleteRows :
                         row.order_index <= other.order_index
                   /\ \A other \in EnabledRows :
                         other.order_index < row.order_index
                             => other \in CompleteRows

\* the current step comes after a complete step and after a disabled
\* incomplete one, and was stored before both
CurrentStepAfterCompleteAndDisabled ==
    /\ pc = "asked"
    /\ answer.of = "get_current_story_step"
    /\ answer.value.found
    /\ answer.value.info.step.id = 1
    /\ \E done \in CompleteRows : done.order_index < answer.value.info.step.order_index
    /\ \E r \in 1..Len(story_steps) :
          /\ story_steps[r].enabled = 0
          /\ story_steps[r].order_index < answer.value.info.step.order_index
          /\ LiveRows(story_steps[r]) < story_steps[r].min_records_required

\* the roles whose pattern list holds the name asked about, in any casing
ListingRoles ==
    {r \in 1..Len(SEMANTIC_PATTERNS) : Lower(column_name) \in ListedNames(r)}

(* C17 as stated: detect_semantic_type returns the documented role for     *)
(* every name of the pattern list, in any letter case and with '_', '-'    *)
(* or nothing where the pattern allows a separator, and None for every     *)
(* other name: the whole name is matched, never a part of it.              *)
DetectMatchesWholeNames ==
    detected.called =>
        /\ \A r \in ListingRoles :
              detected.role = SEMANTIC_PATTERNS[r].semantic_type
        /\ ListingRoles = {} => detected.role = None

\* the role a dict of semantics holds for a column name, None for no entry
RoleIn(semantics, name) ==
    IF name \in DOMAIN semantics THEN semantics[name] ELSE None

\* the fixed order of the roles
RolePriority ==
    <<"created_at", "updated_at", "deleted_at", "created_by", "updated_by", "status">>

\* the places in RolePriority of the roles with a pattern matching the name
\* asked about
RolesMatching ==
    {i \in 1..Len(RolePriority) :
        \E r \in 1..Len(SEMANTIC_PATTERNS) :
            /\ SEMANTIC_PATTERNS[r].semantic_type = RolePriority[i]
            /\ \E p \in 1..Len(SEMANTIC_PATTERNS[r].patterns) :
                  ReMatch(SEMANTIC_PATTERNS[r].patterns[p], Lower(column_name))}

\* detect_semantic_type answers with one role, the first of the fixed order
\* that has a matching pattern, or with None when there is none
FirstMatchingRole ==
    detected.called =>
        IF RolesMatching = {} THEN detected.role = None
        ELSE \E i \in RolesMatching :
                /\ detected.role = RolePriority[i]
                /\ \A j \in RolesMatching : i <= j

\* two successive calls of analyze_table_semantics give a column name they
\* both meet the same role, and give no role to names the table lacks
SameNameSameRole ==
    /\ \A i \in 1..Len(table_columns.columns), j \in 1..Len(table_columns'.columns) :
          table_columns.columns[i].name = table_columns'.columns[j].name =>
              RoleIn(table_semantics, table_columns.columns[i].name)
                  = RoleIn(table_semantics', table_columns'.columns[j].name)
    /\ DOMAIN table_semantics' \subseteq
          {table_columns'.columns[j].name : j \in 1..Len(table_columns'.columns)}

(* C18: role assignment is deterministic and exclusive: a column name gets *)
(* at most one role, the first in the order created_at, updated_at,        *)
(* deleted_at, created_by, updated_by, status with a matching pattern, and *)
(* the role analyze_table_semantics gives a column depends on its name     *)
(* only, not on its declared type, its table or the table's other columns. *)
RoleIsFunctionOfName == []FirstMatchingRole /\ [][SameNameSameRole]_vars

\* a table was analysed in which an integer column carries a role beside a
\* column of no role
IntegerColumnWithRole ==
    /\ pc = "analyzed"
    /\ Len(table_columns.columns) > 1
    /\ table_columns.columns[1].type = "INTEGER"
    /\ RoleIn(table_semantics, table_columns.columns[1].name) = "created_at"
    /\ RoleIn(table_semantics, table_columns.columns[2].name) = None

\* the columns the cached semantics of the table give the role deleted_at
MarkerColumns == {col \in DOMAIN table_semantics : table_semantics[col] = "deleted_at"}

\* a call of delete_row did to the stored rows what the kind of table asks
DeleteRowStep ==
    (pc = "crud" /\ crud_call'.op = "delete_row" /\ listing' = NotListed) =>
        LET pk_value == crud_call'.pk_value
            existing == {i \in 1..Len(crud_rows) : crud_rows[i]["id"] = pk_value}
        IN  /\ existing = {} => ~crud_call'.returned /\ crud_rows' = crud_rows
            /\ (existing # {} /\ MarkerColumns # {}) =>
                  /\ crud_call'.returned
                  /\ Len(crud_rows') = Len(crud_rows)
                  /\ \A i \in 1..Len(crud_rows) :
                        /\ crud_rows'[i]["id"] = crud_rows[i]["id"]
                        /\ i \in existing =>
                              \E col \in MarkerColumns : crud_rows'[i][col] # SqlNull
                        /\ i \notin existing => crud_rows'[i] = crud_rows[i]
            /\ (existing # {} /\ MarkerColumns = {}) =>
                  /\ crud_call'.returned
                  /\ \A i \in 1..Len(crud_rows') : crud_rows'[i]["id"] # pk_value
                  /\ Len(crud_rows') = Len(crud_rows) - Cardinality(existing)

\* after a soft delete the listing leaves the row out by default and holds
\* it with include_deleted, on a first page that takes the whole table
ListingAfterSoftDelete ==
    (listing.called /\ crud_call.op = "delete_row" /\ crud_call.returned
        /\ MarkerColumns # {}) =>
        LET listed == {j \in 1..Len(listing.rows) :
                          listing.rows[j]["id"] = crud_call.pk_value}
            stored == {i \in 1..Len(crud_rows) :
                          crud_rows[i]["id"] = crud_call.pk_value}
        IN  /\ ~listing.include_deleted => listed = {}
            /\ (listing.include_deleted /\ listing.page = 1
                   /\ Len(crud_rows) <= listing.page_size) =>
                  /\ Cardinality(listed) = Cardinality(stored)
                  /\ \A j \in listed : \E i \in stored : listing.rows[j] = crud_rows[i]

(* C20: delete_row on an existing row of a table whose cached semantics    *)
(* hold a deleted_at column keeps the row and sets its marker, after which *)
(* list_rows leaves the row out by default and returns it with             *)
(* include_deleted=True; on a table without such a column the row is       *)
(* removed; with no row of the given key delete_row returns False and the  *)
(* table is unchanged.                                                     *)
DeleteRowIsSoftWhereMarked == [][DeleteRowStep]_vars /\ []ListingAfterSoftDelete

\* a row that was soft-deleted is listed with include_deleted beside a row
\* that was not
SoftDeletedRowListed ==
    /\ listing.called
    /\ listing.include_deleted
    /\ listing.page_size = DefaultPageSize
    /\ crud_call.op = "delete_row"
    /\ crud_call.returned
    /\ Len(listing.rows) = MaxCrudRows
    /\ \E j, k \in 1..Len(listing.rows) :
          /\ listing.rows[j]["id"] = crud_call.pk_value
          /\ "deleted-on" \in DOMAIN listing.rows[j]
          /\ listing.rows[j]["deleted-on"] = SqlText(Now)
          /\ listing.rows[k]["deleted-on"] = SqlNull

(* C21: clear_all_demo_data clears in reverse dependency order: when it    *)
(* returns it has cleared every node of the dependency graph exactly once, *)
(* and at every moment of a run over an acyclic graph, each table cleared  *)
(* so far was cleared after every table that references it.                *)
ClearsReferencingFirst ==
    /\ pc = "cleared" =>
          /\ Range(cleared) = graph.nodes
          /\ Len(cleared) = Cardinality(graph.nodes)
          /\ DOMAIN results = graph.nodes
    /\ (pc \in {"clearing", "cleared"} /\ Acyclic(graph)) =>
          \A i \in 1..Len(cleared) :
              \A e \in EdgeSet(graph) :
                  e[2] = cleared[i] => \E j \in 1..(i - 1) : cleared[j] = e[1]

\* a chain of two references and a dangling reference have been cleared
\* and no table holds a row
ClearedChainAndDangling ==
    /\ pc = "cleared"
    /\ Acyclic(graph)
    /\ \E e1, e2 \in EdgeSet(graph) : e1[2] = e2[1]
    /\ DanglingName \in Range(cleared)
    /\ \A t \in DOMAIN target_rows : target_rows[t] = 0

\* the foreign-key edges of the live target database
LiveEdges ==
    UNION {{<<live_schema[i].table_name, live_schema[i].foreign_keys[j].table>> :
               j \in 1..Len(live_schema[i].foreign_keys)} : i \in 1..Len(live_schema)}

\* the tables of the live target database and the tables they reference
LiveNames ==
    {live_schema[i].table_name : i \in 1..Len(live_schema)}
    \cup {e[2] : e \in LiveEdges}

(* C22 as stated: whatever schema changes, reload-schema calls and         *)
(* database switches came before, when reset_story completes the source    *)
(* names of the stored steps are exactly the tables of the live target     *)
(* database and the tables it references, and the persisted dependencies   *)
(* are the foreign-key edges of the live schema.                           *)
ResetFollowsLiveSchema ==
    call.op = "reset" =>
        /\ {story_steps[i].source_name : i \in 1..Len(story_steps)} = LiveNames
        /\ Range(table_dependencies) = LiveEdges

\* the nodes from which no table on a cycle is reached, themselves included
CycleFree(g) ==
    {n \in g.nodes : ~OnCycle(g, n) /\ \A m \in ReachableFrom(g, n) : ~OnCycle(g, m)}

\* the work queue has emptied
QueueEmptied == pc = "done" \/ (pc = "loop" /\ queue = <<>>)

(* C23: when the work queue of topological_sort_tables has emptied, a node *)
(* is still unvisited if and only if the graph has a cycle, a table        *)
(* referencing itself being one; over an acyclic graph the fallback        *)
(* appends nothing.                                                        *)
UnvisitedLeftIffCycle ==
    /\ QueueEmptied => ((graph.nodes \ visited # {}) <=> ~Acyclic(graph))
    /\ (pc = "done" /\ Acyclic(graph)) =>
          /\ Remaining(graph, hashOrder, visited) = <<>>
          /\ Len(result) = Cardinality(visited)

\* the queue emptied over a graph whose only cycle is a self-reference, with
\* a table visited and a table left
QueueEmptiedOnSelfReference ==
    /\ pc = "loop"
    /\ queue = <<>>
    /\ visited # {}
    /\ graph.nodes \ visited # {}
    /\ \A e \in EdgeSet(graph) : e[1] # e[2] => ~OnCycle(graph, e[1])

(* C24 as stated: in a graph with cycles, for every edge (A, B) in which   *)
(* neither A nor B lies on a cycle, B precedes A in the returned order.    *)
OffCycleEdgesOrdered ==
    pc = "done" =>
        \A e \in EdgeSet(graph) :
            (~OnCycle(graph, e[1]) /\ ~OnCycle(graph, e[2])) =>
                Pos(result, e[2]) < Pos(result, e[1])

(* C27: a table is emitted in the queue phase of topological_sort_tables   *)
(* if and only if no table on a cycle, a self-referencing table included,  *)
(* is reachable from it; every other table is placed by the fallback       *)
(* append, after all the tables of the queue phase.                        *)
QueuePhaseIsCycleFreePart ==
    /\ QueueEmptied => visited = CycleFree(graph)
    /\ pc = "done" =>
          \A p \in 1..Len(result) :
              (p <= Cardinality(visited)) <=> (result[p] \in CycleFree(graph))

\* a finished sort placed by the fallback a table that is on no cycle but
\* references a self-referencing table, and placed a table by the queue
SortedUpstreamOfSelfReference ==
    /\ pc = "done"
    /\ visited # {}
    /\ \E e \in EdgeSet(graph) :
          /\ e[1] # e[2]
          /\ ~OnCycle(graph, e[1])
          /\ <<e[2], e[2]>> \in EdgeSet(graph)
          /\ Pos(result, e[1]) > Cardinality(visited)

(* C28: for any graph, cyclic or not, and every edge (A, B): a referenced  *)
(* table B emitted in the queue phase precedes A in the output; and a      *)
(* table waits in the queue only when every table it references has been   *)
(* emitted.                                                                *)
QueuePhaseReferencedFirst ==
    /\ pc = "done" =>
          \A e \in EdgeSet(graph) :
              e[2] \in visited => Pos(result, e[2]) < Pos(result, e[1])
    /\ pc = "loop" =>
          \A i \in 1..Len(queue) :
              \A d \in Range(Get(graph.outgoing, queue[i], <<>>)) : d \in visited

\* a finished sort of a cyclic graph in which a table of the queue phase is
\* referenced from a table on the cycle and from a table of the queue phase
SortedCyclicWithQueuePhaseEdges ==
    /\ pc = "done"
    /\ ~Acyclic(graph)
    /\ \E e1, e2 \in EdgeSet(graph) :
          /\ e1[2] \in visited
          /\ e1[1] \in visited
          /\ e2[2] \in visited
          /\ OnCycle(graph, e2[1])

(* C25 as stated: after cache_dependency_graph, get_cached_dependencies    *)
(* returns one (from_table, to_table) record for each entry of the edges   *)
(* list of build_dependency_graph, in the same order, also when a table    *)
(* has several foreign keys to the same table; no row of an earlier call   *)
(* is kept.                                                                *)
DependenciesRoundTrip ==
    (pc = "asked" /\ answer.of = "get_cached_dependencies") =>
        /\ Len(answer.value) = Len(graph.edges)
        /\ \A i \in 1..Len(answer.value) :
              /\ i <= Len(graph.edges)
              /\ answer.value[i].from_table = graph.edges[i][1]
              /\ answer.value[i].to_table = graph.edges[i][2]

-----------------------------------------------------------------------------
\* the fields update_story_step takes as optional arguments
UpdatableFields ==
    {"title", "description", "min_records_required", "enabled", "order_index"}

\* the value a given argument is stored as
StoredArgument(args, f) ==
    IF f = "enabled" THEN (IF args[f].value THEN 1 ELSE 0) ELSE args[f].value

\* a field of the step the call names is written
Written(args, f) == f \in UpdatableFields /\ args[f].given

\* after differs from rows in the given fields of the step with the id only
OnlyGivenFieldsOfStep(rows, after, step_id, args) ==
    /\ Len(after) = Len(rows)
    /\ \A r \in 1..Len(rows) :
          IF rows[r].id # step_id THEN after[r] = rows[r]
          ELSE /\ DOMAIN after[r] = DOMAIN rows[r]
               /\ \A f \in DOMAIN rows[r] :
                     after[r][f] = IF Written(args, f) THEN StoredArgument(args, f)
                                   ELSE rows[r][f]
    /\ (\A f \in UpdatableFields : ~args[f].given) => after = rows
    /\ (\A r \in 1..Len(rows) : rows[r].id # step_id) => after = rows

(* C26: update_story_step changes only the fields passed as non-None, and
   only on the step with the given id: every other field of that step and
   every field of every other step is unchanged, a call with no field given
   changes nothing, and a call with an id that matches no step changes
   nothing (the UPDATE matches no row and nothing is raised). *)
UpdateChangesOnlyGivenFields ==
    /\ [](pc = "story" =>
            \A step_id \in 1..MaxStepId, args \in UpdateArgs :
                OnlyGivenFieldsOfStep(story_steps,
                                      UpdateStoryStep(story_steps, step_id, args),
                                      step_id, args))
    /\ [][call'.op = "update" =>
            /\ next_id' = next_id
            /\ table_dependencies' = table_dependencies
            /\ \E step_id \in 1..MaxStepId, args \in UpdateArgs :
                  OnlyGivenFieldsOfStep(story_steps, story_steps', step_id, args)]_vars

\* update_story_step has disabled one step of two and left the other, and the
\* title, threshold and position of the disabled step, as regeneration stored
\* them
OneStepOfTwoDisabled ==
    /\ call.op = "update"
    /\ Len(story_steps) = 2
    /\ \E r, q \in 1..2 :
          /\ r # q
          /\ story_steps[r].enabled = 0
          /\ story_steps[r].title = Title(story_steps[r].source_name)
          /\ story_steps[r].min_records_required = 1
          /\ story_steps[r].order_index = r - 1
          /\ story_steps[q].enabled = 1
          /\ story_steps[q].title = Title(story_steps[q].source_name)
          /\ story_steps[q].min_records_required = 1
          /\ story_steps[q].order_index = q - 1

-----------------------------------------------------------------------------
\* get_table_row_count for the table when it holds these rows
RowCountOfTable(rows) ==
    GetTableRowCount("target.db",
                     table_columns.table_name :>
                         RowCountOf(rows, GetSoftDeleteColumn(table_semantics)),
                     table_columns.table_name).value

\* a call of delete_row on a table with a soft-delete column leaves
\* get_table_row_count for the table as it was
SoftDeleteKeepsCount ==
    (pc = "crud" /\ crud_call'.op = "delete_row" /\ MarkerColumns # {}) =>
        RowCountOfTable(crud_rows') = RowCountOfTable(crud_rows)

\* what get_step_progress answered for the step of the table is what holds
\* of the stored rows, soft-deleted or not, after any number of soft deletes
AnsweredProgressStillHolds ==
    (pc = "crud" /\ MarkerColumns # {} /\ step # NoStep) =>
        /\ ~progress.raised
        /\ progress.required = step.min_records_required
        /\ progress.current_count = Len(crud_rows)
        /\ progress.is_complete <=> Len(crud_rows) >= step.min_records_required

\* list_rows, called for its first page with the defaults, shows no row
ListRowsShowsNone ==
    \A returned \in ListRows(crud_rows, PkColumn(table_columns.columns),
                             GetSoftDeleteColumn(table_semantics),
                             1, DefaultPageSize, FALSE) :
        returned.rows = <<>> /\ returned.total_count = 0

(* C29: story progress counts soft-deleted rows: delete_row on a row of a
   table with a deleted_at column leaves get_table_row_count for that table
   unchanged, so a step that is complete stays complete after any number of
   soft deletes, even when every row of its table has been soft-deleted and
   list_rows shows none. *)
ProgressCountsSoftDeletedRows ==
    [][SoftDeleteKeepsCount]_vars /\ []AnsweredProgressStillHolds

\* every row of the table was soft-deleted by delete_row, list_rows shows
\* none, and the step of the table was answered complete, counting them all
CompleteWithEveryRowSoftDeleted ==
    /\ pc = "crud"
    /\ MarkerColumns # {}
    /\ Len(crud_rows) = MaxCrudRows
    /\ \A i \in 1..Len(crud_rows) :
          \A col \in MarkerColumns : crud_rows[i][col] = SqlText(Now)
    /\ crud_call.op = "delete_row"
    /\ crud_call.returned
    /\ ListRowsShowsNone
    /\ step = StepOfTable(1)
    /\ progress.current_count = MaxCrudRows
    /\ progress.is_complete

-----------------------------------------------------------------------------
\* the list regenerate_story_steps is putting in place of the stored one
NewSteps == StoredSteps(txn.steps, txn.first_id)

\* until the commit the database file holds the steps it held
OldStepsUntilCommit == txn.open => story_steps = txn.old

\* a get_story_steps call returns the whole old list or the whole new one
ReaderSeesOldOrNew ==
    (answer' # answer /\ answer'.of = "get_story_steps") =>
        IF txn.open
        THEN answer'.value \in
                 GetStorySteps(txn.old, answer'.include_disabled)
                 \cup GetStorySteps(NewSteps, answer'.include_disabled)
        ELSE answer'.value \in GetStorySteps(story_steps, answer'.include_disabled)

\* the commit puts the whole new list in place, a crash leaves the whole old
\* one
WholeListAfterTransaction ==
    (txn.open /\ ~txn'.open) =>
        /\ story_steps' \in {txn.old, NewSteps}
        /\ call' # call => story_steps' = NewSteps
        /\ call' = call => story_steps' = txn.old /\ next_id' = next_id

(* C30: regenerate_story_steps replaces the stored steps atomically: the
   deletion of all old steps and the insertion of all new steps are committed
   together, so a get_story_steps call running concurrently, or a crash
   before the commit, observes either the complete old step list or the
   complete new one, never an empty or partially filled list. *)
RegenerateIsAtomic ==
    /\ []OldStepsUntilCommit
    /\ [][ReaderSeesOldOrNew]_vars
    /\ [][WholeListAfterTransaction]_vars

\* get_story_steps returned the two old steps while the transaction had
\* deleted them and inserted the first of the two new ones
OldListReadDuringInsert ==
    /\ txn.open
    /\ Len(txn.old) = 2
    /\ Len(txn.steps) = 2
    /\ txn.inserted = 1
    /\ Len(txn.rows) = 1
    /\ answer.of = "get_story_steps"
    /\ answer.concurrent
    /\ Len(answer.value) = 2
    /\ {answer.value[i].id : i \in 1..2} = {txn.old[i].id : i \in 1..2}

====
